---- MODULE Spec2Model ----
(***************************************************************************)
(* Model of the moor pager core: the parallel line search                  *)
(* (internal/search.go), the viewport renderer (internal/screenLines.go)   *)
(* and the terminal I/O engine (twin/screen.go).                           *)
(***************************************************************************)
EXTENDS Integers, Sequences, FiniteSets, TLC

VARIABLES
    lines,      \* the reader's line store: a sequence of input lines
    numCPU,     \* runtime.NumCPU()
    find,       \* one findFirstHit invocation: arguments, workers, collector
    p,          \* the Pager fields the search and render code reads and writes
    last,       \* record of the most recent pager operation (history)
    screen,     \* UnixScreen: cached size, sigwinch slot, events channel
    term,       \* the real terminal window: its size history, pending signal
    ml,         \* UnixScreen.mainLoop: position, buffered input
    consumer,   \* the client reading screen.Events() and calling Size()
    rendered,   \* what the last renderLines() call returned
    call        \* a call of one of the terminal engine's pure functions

vars == <<lines, numCPU, find, p, last, screen, term, ml, consumer, rendered, call>>

(***************************************************************************)
(* Bounds                                                                  *)
(***************************************************************************)
MaxCPU == 3
MaxLines == 4
MaxRunes == 3
MaxWidth == 4
MaxHeight == 3
MaxPrefix == 3
MaxLeft == 2
PagerMaxLines == 3
PagerCPUs == 2
ViewportMaxLines == 2
WalkMaxLines == 2
HitMaxLines == 2
WalkMaxLeft == 3
EventsCap == 2
MaxReads == 2
MaxResizes == 3
FirstWidth == 2
FirstHeight == 1
MaxCalls == 2
NoMatchMaxLines == 2
MaxKeys == 1
MaxBgCalls == 2
MaxPolls == 2

\* A nil *linemetadata.Index
Nil == 0 - 1

Max(a, b) == IF a > b THEN a ELSE b
Min(a, b) == IF a < b THEN a ELSE b

(***************************************************************************)
(* Input lines.  A line is a sequence of runes plus the style the          *)
(* tokenizer reports after its last rune.  Rune "x" is the text the        *)
(* search pattern matches, "a" is other narrow text, "W" is a double       *)
(* width rune.                                                             *)
(***************************************************************************)
Runes == {"a", "x", "W"}

Line(runes, trailer) == [runes |-> runes, trailer |-> trailer]

\* pattern.MatchString(line.Plain()) for the pattern "x"
MatchString(line) == \E i \in 1..Len(line.runes) : line.runes[i] = "x"

\* Index.NonWrappingAdd: saturates at zero
NonWrappingAdd(index, offset) == Max(0, index + offset)

\* reader.GetLineCount()
GetLineCount(file) == Len(file)

\* reader.GetLine(index): Nil past the end.  Indices are zero based.
HasLine(file, index) == index >= 0 /\ index < Len(file)
GetLine(file, index) == file[index + 1]

\* linemetadata.IndexFromLength: Nil for an empty file
IndexFromLength(length) == IF length = 0 THEN Nil ELSE length - 1

(***************************************************************************)
(* _findFirstHit: one chunk's sequential scan                              *)
(***************************************************************************)
\* One iteration of the loop: either the loop returns (done) with res, or
\* it goes on at pos.
findStepSkipsMatch(file, searchPosition, beforePosition, backwards) ==
    IF ~HasLine(file, searchPosition)
      THEN [done |-> TRUE, res |-> Nil, pos |-> searchPosition]
      ELSE IF backwards /\ searchPosition = 0
        THEN [done |-> TRUE, res |-> Nil, pos |-> searchPosition]
        ELSE LET next == NonWrappingAdd(searchPosition, IF backwards THEN -1 ELSE 1)
             IN IF beforePosition # Nil /\ next = beforePosition
                  THEN [done |-> TRUE, res |-> Nil, pos |-> next]
                  ELSE [done |-> FALSE, res |-> Nil, pos |-> next]

findStepBoundIncluded(file, searchPosition, beforePosition, backwards) ==
    IF ~HasLine(file, searchPosition)
      THEN [done |-> TRUE, res |-> Nil, pos |-> searchPosition]
      ELSE IF MatchString(GetLine(file, searchPosition))
        THEN [done |-> TRUE, res |-> searchPosition, pos |-> searchPosition]
        ELSE IF backwards /\ searchPosition = 0
          THEN [done |-> TRUE, res |-> Nil, pos |-> searchPosition]
          ELSE IF beforePosition # Nil /\ searchPosition = beforePosition
            THEN [done |-> TRUE, res |-> Nil, pos |-> searchPosition]
            ELSE [done |-> FALSE, res |-> Nil,
                  pos |-> NonWrappingAdd(searchPosition, IF backwards THEN -1 ELSE 1)]

findStep(file, searchPosition, beforePosition, backwards) ==
    IF ~HasLine(file, searchPosition)
      THEN [done |-> TRUE, res |-> Nil, pos |-> searchPosition]
      ELSE IF MatchString(GetLine(file, searchPosition))
        THEN [done |-> TRUE, res |-> searchPosition, pos |-> searchPosition]
        ELSE IF backwards /\ searchPosition = 0
          THEN [done |-> TRUE, res |-> Nil, pos |-> searchPosition]
          ELSE LET next == NonWrappingAdd(searchPosition, IF backwards THEN -1 ELSE 1)
               IN IF beforePosition # Nil /\ next = beforePosition
                    THEN [done |-> TRUE, res |-> Nil, pos |-> next]
                    ELSE [done |-> FALSE, res |-> Nil, pos |-> next]

RECURSIVE findFirstHitChunk(_, _, _, _)
findFirstHitChunk(file, startPosition, beforePosition, backwards) ==
    LET s == findStep(file, startPosition, beforePosition, backwards)
    IN IF s.done THEN s.res
       ELSE findFirstHitChunk(file, s.pos, beforePosition, backwards)

(***************************************************************************)
(* findFirstHit: the chunk layout                                          *)
(***************************************************************************)
linesCount(file, startPosition, beforePosition, backwards) ==
    IF backwards
      THEN IF beforePosition # Nil THEN startPosition - beforePosition
           ELSE startPosition + 1
      ELSE IF beforePosition # Nil THEN beforePosition - startPosition
           ELSE GetLineCount(file) - startPosition

chunkCount(file, startPosition, beforePosition, backwards, cpus) ==
    IF linesCount(file, startPosition, beforePosition, backwards) < cpus
      THEN 1 ELSE cpus

\* Go's integer division truncates toward zero
GoDiv(a, b) == IF a >= 0 THEN a \div b ELSE -((-a) \div b)

chunkSize(file, startPosition, beforePosition, backwards, cpus) ==
    GoDiv(linesCount(file, startPosition, beforePosition, backwards),
          chunkCount(file, startPosition, beforePosition, backwards, cpus))

\* searchStarts[i], i zero based
searchStarts(file, startPosition, beforePosition, backwards, cpus, i) ==
    NonWrappingAdd(startPosition,
        i * (IF backwards THEN -1 ELSE 1)
          * chunkSize(file, startPosition, beforePosition, backwards, cpus))

\* chunkBefore of chunk i: the next chunk's start, or the caller's bound
chunkBefore(file, startPosition, beforePosition, backwards, cpus, i) ==
    IF i + 1 < chunkCount(file, startPosition, beforePosition, backwards, cpus)
      THEN searchStarts(file, startPosition, beforePosition, backwards, cpus, i + 1)
      ELSE beforePosition

\* What chunk i's worker sends on findings[i]
chunkFinding(file, startPosition, beforePosition, backwards, cpus, i) ==
    findFirstHitChunk(file,
        searchStarts(file, startPosition, beforePosition, backwards, cpus, i),
        chunkBefore(file, startPosition, beforePosition, backwards, cpus, i),
        backwards)

\* The collector's loop when no worker fails: the first non-nil finding in
\* chunk order, Nil when every finding is nil.
findFirstHit(file, startPosition, beforePosition, backwards, cpus) ==
    LET cc == chunkCount(file, startPosition, beforePosition, backwards, cpus)
        hits == {i \in 0..(cc - 1) :
                   chunkFinding(file, startPosition, beforePosition, backwards, cpus, i) # Nil}
    IN IF hits = {} THEN Nil
       ELSE chunkFinding(file, startPosition, beforePosition, backwards, cpus,
                         CHOOSE i \in hits : \A j \in hits : i <= j)

\* The lines one _findFirstHit call tests against the pattern, in scan order
RECURSIVE chunkTested(_, _, _, _)
chunkTested(file, startPosition, beforePosition, backwards) ==
    LET s == findStep(file, startPosition, beforePosition, backwards)
    IN IF ~HasLine(file, startPosition) THEN <<>>
       ELSE IF s.done THEN <<startPosition>>
       ELSE <<startPosition>> \o chunkTested(file, s.pos, beforePosition, backwards)

\* The lines the workers of chunks i and up test
RECURSIVE chunksTested(_, _, _, _, _, _)
chunksTested(file, startPosition, beforePosition, backwards, cpus, i) ==
    IF i >= chunkCount(file, startPosition, beforePosition, backwards, cpus) THEN <<>>
    ELSE chunkTested(file,
                     searchStarts(file, startPosition, beforePosition, backwards, cpus, i),
                     chunkBefore(file, startPosition, beforePosition, backwards, cpus, i),
                     backwards)
           \o chunksTested(file, startPosition, beforePosition, backwards, cpus, i + 1)

\* The lines one findFirstHit call tests: every chunk's worker runs its scan
findFirstHitTested(file, startPosition, beforePosition, backwards, cpus) ==
    chunksTested(file, startPosition, beforePosition, backwards, cpus, 0)

(***************************************************************************)
(* Screen cells.  A cell is a rune and whether it starts a search hit;     *)
(* "sp" is a blank, "digit" a line number digit, "<" and ">" the scroll    *)
(* hints.  Only "W" is two columns wide.                                   *)
(***************************************************************************)
Cell(rune, hit) == [rune |-> rune, hit |-> hit]
Space == Cell("sp", FALSE)
ScrollLeftHint == Cell("<", FALSE)
ScrollRightHint == Cell(">", FALSE)

\* CellWithMetadata.Width()
Width(cell) == IF cell.rune = "W" THEN 2 ELSE 1

RECURSIVE DisplayWidth(_)
DisplayWidth(cells) ==
    IF cells = <<>> THEN 0 ELSE Width(Head(cells)) + DisplayWidth(Tail(cells))

\* CellWithMetadataSlice.WithoutSpaceRight()
RECURSIVE WithoutSpaceRight(_)
WithoutSpaceRight(cells) ==
    IF cells = <<>> THEN <<>>
    ELSE IF cells[Len(cells)].rune = "sp"
      THEN WithoutSpaceRight(SubSeq(cells, 1, Len(cells) - 1))
      ELSE cells

\* NumberedLine.HighlightedTokens: the tokenizer's cells for a line, the
\* first cell of every match tagged, plus the trailing style.
HighlightedTokens(line, searching) ==
    [StyledRunes |-> [i \in 1..Len(line.runes) |->
                        Cell(line.runes[i], searching /\ line.runes[i] = "x")],
     Trailer |-> line.trailer]

\* wrapLine: split cells into rows at most width columns wide; every row
\* takes at least one cell.
RECURSIVE TakeWidth(_, _, _)
TakeWidth(cells, n, width) ==
    IF n < Len(cells) /\ DisplayWidth(SubSeq(cells, 1, n + 1)) <= width
      THEN TakeWidth(cells, n + 1, width)
      ELSE n

RECURSIVE wrapLine(_, _)
wrapLine(width, cells) ==
    IF DisplayWidth(cells) <= width \/ Len(cells) <= 1 THEN <<cells>>
    ELSE LET n == Max(1, TakeWidth(cells, 0, width))
         IN <<SubSeq(cells, 1, n)>> \o wrapLine(width, SubSeq(cells, n + 1, Len(cells)))

(***************************************************************************)
(* The pager.  q is a Pager record:                                        *)
(*   scrollPosition [lineIndex, deltaScreenLines], leftColumnZeroBased,    *)
(*   showLineNumbers, ShowLineNumbers (the user's preference),             *)
(*   WrapLongLines, mode, searching (searchPattern != nil),                *)
(*   longestLineLength, width and height (what p.screen.Size() returns),   *)
(*   prefixLength (columns the line number gutter takes when shown),       *)
(*   status: "ok", or "panic" / "hang" once an operation failed to return  *)
(***************************************************************************)
\* Pager.visibleHeight(): the status line takes one row
visibleHeight(q) == q.height - 1

\* Pager.getLineNumberPrefixLength()
getLineNumberPrefixLength(q) == IF q.showLineNumbers THEN q.prefixLength ELSE 0

\* How many screen rows an input line takes
RowCount(q, file, index) ==
    IF q.WrapLongLines
      THEN Len(wrapLine(q.width - getLineNumberPrefixLength(q),
                        HighlightedTokens(GetLine(file, index), q.searching).StyledRunes))
      ELSE 1

\* scrollPosition canonicalization: deltaScreenLines is brought into the
\* rows of a line of the file, walking to the lines before or after.
RECURSIVE canonicalize(_, _, _)
canonicalize(q, file, sp) ==
    IF Len(file) = 0 THEN [lineIndex |-> Nil, deltaScreenLines |-> 0]
    ELSE IF sp.lineIndex = Nil
      THEN canonicalize(q, file, [lineIndex |-> 0, deltaScreenLines |-> sp.deltaScreenLines])
    ELSE IF sp.lineIndex >= Len(file)
      THEN [lineIndex |-> Len(file) - 1, deltaScreenLines |-> 0]
    ELSE IF sp.deltaScreenLines < 0
      THEN IF sp.lineIndex = 0 THEN [lineIndex |-> 0, deltaScreenLines |-> 0]
           ELSE canonicalize(q, file,
                  [lineIndex |-> sp.lineIndex - 1,
                   deltaScreenLines |-> sp.deltaScreenLines + RowCount(q, file, sp.lineIndex - 1)])
    ELSE IF sp.deltaScreenLines >= RowCount(q, file, sp.lineIndex)
      THEN IF sp.lineIndex = Len(file) - 1
             THEN [lineIndex |-> sp.lineIndex,
                   deltaScreenLines |-> RowCount(q, file, sp.lineIndex) - 1]
             ELSE canonicalize(q, file,
                    [lineIndex |-> sp.lineIndex + 1,
                     deltaScreenLines |-> sp.deltaScreenLines - RowCount(q, file, sp.lineIndex)])
    ELSE sp

NewScrollPositionFromIndex(index) == [lineIndex |-> index, deltaScreenLines |-> 0]

\* scrollPosition.PreviousLine(n) / NextLine(n)
PreviousLine(q, file, sp, n) ==
    canonicalize(q, file, [sp EXCEPT !.deltaScreenLines = @ - n])
NextLine(q, file, sp, n) ==
    canonicalize(q, file, [sp EXCEPT !.deltaScreenLines = @ + n])

(***************************************************************************)
(* createLinePrefix and decorateLine                                       *)
(***************************************************************************)
Repeat(cell, n) == [i \in 1..Max(0, n) |-> cell]

\* Line numbers of the modelled files have one digit
createLinePrefix(showNumber, numberPrefixLength) ==
    IF numberPrefixLength = 0 THEN <<>>
    ELSE IF ~showNumber THEN Repeat(Space, numberPrefixLength)
    ELSE Repeat(Space, numberPrefixLength - 2) \o <<Cell("digit", FALSE), Space>>

\* The loop over contents.  st.first and st.last are 1-based rune
\* positions, 0 for "none" (the code's nil and -1).
RECURSIVE decorateScan(_, _, _, _, _)
decorateScan(contents, i, st, leftColumn, lastVisibleScreenColumn) ==
    IF i > Len(contents) THEN st
    ELSE
      LET char == contents[i]
          found == st.first = 0 /\ st.col >= leftColumn
          st1 == IF found
                   THEN [st EXCEPT !.first = i,
                                   !.cutLeft = (i > 1 /\ st.col > leftColumn
                                                /\ Width(contents[i - 1]) > 1)]
                   ELSE st
          screenReached == st1.first # 0
          currentCharRightEdge == st1.col + Width(char) - 1
          beforeRightEdge == currentCharRightEdge <= lastVisibleScreenColumn
      IN IF screenReached /\ ~beforeRightEdge
           THEN [st1 EXCEPT !.canScrollRight = TRUE,
                            !.cutRight = (st1.col <= lastVisibleScreenColumn)]
           ELSE decorateScan(contents, i + 1,
                  [st1 EXCEPT !.last = IF screenReached THEN i ELSE @,
                              !.col = @ + Width(char)],
                  leftColumn, lastVisibleScreenColumn)

\* Result: [panic, cells].  panic is a slice or index out of range.
\* Visible is the prefix plus contents[first:last+1] with the blanks for
\* cut wide runes, LeftHint and RightHint are the two scroll markers.
decorateLine(q, showNumber, numberPrefixLength, contents) ==
    LET RightHint(st, l4) ==
            [panic |-> \/ st.first # 0 /\ st.first > st.last + 1
                       \/ st.canScrollRight /\ Len(l4) = 0,
             cells |-> IF st.canScrollRight /\ Len(l4) > 0
                         THEN IF Width(l4[Len(l4)]) > 1
                                THEN SubSeq(l4, 1, Len(l4) - 1) \o <<Space, ScrollRightHint>>
                                ELSE SubSeq(l4, 1, Len(l4) - 1) \o <<ScrollRightHint>>
                         ELSE l4]
        WidenFirst(a) == IF Width(a[1]) > 1 THEN <<Space, Space>> \o Tail(a) ELSE a
        LeftHint(st, l3) ==
            RightHint(st,
                IF q.leftColumnZeroBased > 0 /\ Len(contents) > 0
                  THEN <<ScrollLeftHint>>
                         \o Tail(WidenFirst(IF Len(l3) = 0 THEN <<Space>> ELSE l3))
                  ELSE l3)
        Visible(st, prefix) ==
            LeftHint(st,
                (IF st.cutLeft THEN <<Space>> ELSE <<>>)
                  \o prefix
                  \o (IF st.first # 0 /\ st.first <= st.last + 1
                        THEN SubSeq(contents, st.first, st.last) ELSE <<>>)
                  \o (IF st.cutRight THEN <<Space>> ELSE <<>>))
    IN Visible(decorateScan(contents, 1,
                   [first |-> 0, last |-> 0, col |-> numberPrefixLength,
                    cutLeft |-> FALSE, cutRight |-> FALSE, canScrollRight |-> FALSE],
                   q.leftColumnZeroBased, q.leftColumnZeroBased + q.width - 1),
               createLinePrefix(showNumber, numberPrefixLength))

(***************************************************************************)
(* renderLine and renderLines                                              *)
(***************************************************************************)
\* Rows of one input line: [panic, rows]
renderLine(q, file, index, numberPrefixLength) ==
    LET Rows(trailer, decorated) ==
            [panic |-> \E w \in 1..Len(decorated) : decorated[w].panic,
             rows |-> [w \in 1..Len(decorated) |->
                         [inputLineIndex |-> index,
                          wrapIndex |-> w - 1,
                          cells |-> decorated[w].cells,
                          trailer |-> trailer /\ w = Len(decorated)]]]
        Decorate(trailer, wrapped) ==
            Rows(trailer, [w \in 1..Len(wrapped) |->
                             decorateLine(q, w = 1, numberPrefixLength, wrapped[w])])
        Wrap(highlighted) ==
            Decorate(highlighted.Trailer,
                     IF q.WrapLongLines
                       THEN wrapLine(q.width - numberPrefixLength, highlighted.StyledRunes)
                       ELSE <<highlighted.StyledRunes>>)
    IN Wrap(HighlightedTokens(GetLine(file, index), q.searching))

\* The trailer fill loop: for len(line.cells) < screenWidth, append
fillTrailer(q, row) ==
    IF row.trailer /\ Len(row.cells) < q.width
      THEN [row EXCEPT !.cells = @ \o Repeat(Space, q.width - Len(row.cells))]
      ELSE row

RECURSIVE Flatten(_)
Flatten(seqs) == IF seqs = <<>> THEN <<>> ELSE Head(seqs) \o Flatten(Tail(seqs))

RECURSIVE MaxOf(_)
MaxOf(nums) == IF nums = <<>> THEN 0 ELSE Max(Head(nums), MaxOf(Tail(nums)))

keepLinesBelowScreen(q, allLines) == allLines

\* Drop the lines that would have gone below the screen
dropLinesBelowScreen(q, allLines) ==
    IF Len(allLines) > visibleHeight(q)
      THEN SubSeq(allLines, 1, visibleHeight(q))
      ELSE allLines

isFirstVisibleOfLine(q, line) ==
    \/ q.scrollPosition.lineIndex = Nil
    \/ line.inputLineIndex = q.scrollPosition.lineIndex

\* The test of the loop that looks for the row the user wants at the top
isFirstVisible(q, line) ==
    \/ q.scrollPosition.lineIndex = Nil
    \/ /\ line.inputLineIndex = q.scrollPosition.lineIndex
       /\ line.wrapIndex = q.scrollPosition.deltaScreenLines

\* Result: [panic, cause, lines, inputLines, numberPrefixWidth,
\* longestLineLength] where longestLineLength is what the call leaves in
\* p.longestLineLength and cause tells the panics apart: "decorate" for the
\* slice out of range in decorateLine, "not found" for the scroll position
\* that is not among the rows.
renderLines(q, file) ==
    LET Empty(panic, cause) ==
            [panic |-> panic, cause |-> cause, lines |-> <<>>, inputLines |-> <<>>,
             numberPrefixWidth |-> 0, longestLineLength |-> q.longestLineLength]
        Filled(inputLines, displayLength, wanted) ==
            [panic |-> FALSE, cause |-> "none",
             lines |-> [r \in 1..Len(wanted) |-> fillTrailer(q, wanted[r])],
             inputLines |-> inputLines,
             numberPrefixWidth |-> getLineNumberPrefixLength(q),
             longestLineLength |-> Max(displayLength, q.longestLineLength)]
        Wanted(inputLines, displayLength, fromFirst) ==
            Filled(inputLines, displayLength, dropLinesBelowScreen(q, fromFirst))
        FromFirst(inputLines, displayLength, allLines, found) ==
            IF found = {} THEN Empty(TRUE, "not found")
            ELSE Wanted(inputLines, displayLength,
                        SubSeq(allLines, CHOOSE r \in found : \A r2 \in found : r <= r2,
                               Len(allLines)))
        AllLines(inputLines, displayLength, allLines) ==
            FromFirst(inputLines, displayLength, allLines,
                      {r \in 1..Len(allLines) : isFirstVisible(q, allLines[r])})
        OnScreenLength(rows) ==
            MaxOf([w \in 1..Len(rows) |-> Len(WithoutSpaceRight(rows[w].cells))])
        Rendered(inputLines, renderings) ==
            IF Len(inputLines) = 0 THEN Empty(FALSE, "none")
            ELSE IF \E k \in 1..Len(inputLines) : renderings[k].panic
              THEN Empty(TRUE, "decorate")
            ELSE AllLines(inputLines,
                          MaxOf([k \in 1..Len(inputLines) |->
                                   q.leftColumnZeroBased + OnScreenLength(renderings[k].rows) - 1]),
                          Flatten([k \in 1..Len(inputLines) |-> renderings[k].rows]))
        Fetched(inputLines) ==
            Rendered(inputLines,
                     [k \in 1..Len(inputLines) |->
                        renderLine(q, file, inputLines[k], getLineNumberPrefixLength(q))])
        From(lineIndex) ==
            Fetched([k \in 1..Max(0, Min(Len(file) - 1, lineIndex + visibleHeight(q) - 1)
                                       - lineIndex + 1) |-> lineIndex + k - 1])
    IN From(IF q.scrollPosition.lineIndex # Nil THEN q.scrollPosition.lineIndex ELSE 0)

(***************************************************************************)
(* Search hits on screen and the horizontal walks.  Each operator takes    *)
(* the pager q and returns [q, ret]: the pager as the call leaves it and   *)
(* the call's result.  A call that panics leaves q.status = "panic", one   *)
(* whose loop never ends leaves q.status = "hang"; ret is then FALSE.      *)
(***************************************************************************)
Failed(q) == q.status # "ok"

Returns(q, ret) == [q |-> q, ret |-> ret]

AfterRenderHidesLineNumbers(q, rendering) ==
    IF rendering.panic THEN [q EXCEPT !.status = "panic"]
    ELSE [q EXCEPT !.longestLineLength = rendering.longestLineLength,
                   !.showLineNumbers = FALSE]

\* The pager after a renderLines() call
AfterRender(q, rendering) ==
    IF rendering.panic THEN [q EXCEPT !.status = "panic"]
    ELSE [q EXCEPT !.longestLineLength = rendering.longestLineLength]

RowsShowHit(rows) ==
    \E r \in 1..Len(rows) : \E c \in 1..Len(rows[r].cells) : rows[r].cells[c].hit

searchHitIsVisible(q, file) ==
    LET Seen(rendering) ==
            Returns(AfterRender(q, rendering), ~rendering.panic /\ RowsShowHit(rendering.lines))
    IN Seen(renderLines(q, file))

\* NumberedLine.DisplayWidth()
LineDisplayWidth(line) == DisplayWidth(HighlightedTokens(line, FALSE).StyledRunes)

longestInputLine(file, inputLines) ==
    MaxOf([k \in 1..Len(inputLines) |-> LineDisplayWidth(GetLine(file, inputLines[k]))])

restoreNothing(q, restoreShowLineNumbers, restoreLeftColumn) == q

restoreLeftColumnOnly(q, restoreShowLineNumbers, restoreLeftColumn) ==
    [q EXCEPT !.leftColumnZeroBased = restoreLeftColumn]

\* p.showLineNumbers = restoreShowLineNumbers
\* p.leftColumnZeroBased = restoreLeftColumn
restoreColumns(q, restoreShowLineNumbers, restoreLeftColumn) ==
    [q EXCEPT !.showLineNumbers = restoreShowLineNumbers,
              !.leftColumnZeroBased = restoreLeftColumn]

\* The for loop of scrollRightToSearchHits
RECURSIVE scrollRightLoop(_, _, _, _, _, _)
scrollRightLoop(q, file, maxLeftmostColumn, numberPrefixWidth, restoreShowLineNumbers, restoreLeftColumn) ==
    LET Restore ==
            Returns(restoreColumns(q, restoreShowLineNumbers, restoreLeftColumn), FALSE)
        Checked(visible) ==
            IF Failed(visible.q) THEN Returns(visible.q, FALSE)
            ELSE IF visible.ret THEN Returns(visible.q, TRUE)
            ELSE IF visible.q = q THEN Returns([q EXCEPT !.status = "hang"], FALSE)
            ELSE scrollRightLoop(visible.q, file, maxLeftmostColumn, numberPrefixWidth,
                                 restoreShowLineNumbers, restoreLeftColumn)
        Try(firstNotVisibleColumn) ==
            IF firstNotVisibleColumn < 0 THEN Restore
            ELSE Checked(searchHitIsVisible(
                     [q EXCEPT !.showLineNumbers = FALSE,
                               !.leftColumnZeroBased =
                                   Min(firstNotVisibleColumn, maxLeftmostColumn)],
                     file))
    IN IF q.leftColumnZeroBased < maxLeftmostColumn
         THEN Try(q.leftColumnZeroBased + q.width - numberPrefixWidth - 1)
         ELSE Restore

scrollRightToSearchHits(q, file) ==
    LET Walk(rendering) ==
            IF rendering.panic THEN Returns(AfterRender(q, rendering), FALSE)
            ELSE scrollRightLoop(AfterRender(q, rendering), file,
                                 longestInputLine(file, rendering.inputLines) - q.width,
                                 rendering.numberPrefixWidth,
                                 q.showLineNumbers, q.leftColumnZeroBased)
    IN IF q.WrapLongLines THEN Returns(q, FALSE)
       ELSE Walk(renderLines(q, file))

\* The for loop of scrollLeftToSearchHits
RECURSIVE scrollLeftLoop(_, _, _, _, _)
scrollLeftLoop(q, file, fullLeftRightmostVisibleColumn, restoreShowLineNumbers, restoreLeftColumn) ==
    LET Checked(visible) ==
            IF Failed(visible.q) THEN Returns(visible.q, FALSE)
            ELSE IF visible.ret THEN Returns(visible.q, TRUE)
            ELSE IF visible.q = q THEN Returns([q EXCEPT !.status = "hang"], FALSE)
            ELSE scrollLeftLoop(visible.q, file, fullLeftRightmostVisibleColumn,
                                restoreShowLineNumbers, restoreLeftColumn)
    IN IF q.leftColumnZeroBased > 0 \/ q.showLineNumbers # q.ShowLineNumbers
         THEN Checked(searchHitIsVisible(
                  IF q.leftColumnZeroBased <= fullLeftRightmostVisibleColumn
                    THEN [q EXCEPT !.showLineNumbers = q.ShowLineNumbers,
                                   !.leftColumnZeroBased = 0]
                    ELSE [q EXCEPT !.showLineNumbers = FALSE,
                                   !.leftColumnZeroBased =
                                       Max(0, q.leftColumnZeroBased - q.width + 1)],
                  file))
         ELSE Returns(restoreColumns(q, restoreShowLineNumbers, restoreLeftColumn), FALSE)

scrollLeftToSearchHits(q, file) ==
    LET Walk(rendering) ==
            IF rendering.panic THEN Returns([q EXCEPT !.status = "panic"], FALSE)
            ELSE scrollLeftLoop([q EXCEPT !.longestLineLength = rendering.longestLineLength],
                                file, q.width - 2 - rendering.numberPrefixWidth,
                                q.showLineNumbers, q.leftColumnZeroBased)
    IN IF q.WrapLongLines THEN Returns(q, FALSE)
       ELSE Walk(renderLines([q EXCEPT !.showLineNumbers = q.ShowLineNumbers,
                                       !.leftColumnZeroBased = 0], file))

\* Pager.getLastVisiblePosition(): the position of the last row on screen,
\* Nil line index when the screen shows no row.
getLastVisiblePosition(q, file) ==
    LET Last(rendering) ==
            Returns(AfterRender(q, rendering),
                    IF rendering.panic \/ Len(rendering.lines) = 0
                      THEN [lineIndex |-> Nil, deltaScreenLines |-> 0]
                      ELSE [lineIndex |-> rendering.lines[Len(rendering.lines)].inputLineIndex,
                            deltaScreenLines |-> rendering.lines[Len(rendering.lines)].wrapIndex])
    IN Last(renderLines(q, file))

\* Pager.isScrolledToEnd(): the last row of the last line is on screen
isScrolledToEnd(q, file) ==
    LET AtEnd(position) ==
            Returns(position.q,
                    /\ position.ret.lineIndex = Len(file) - 1
                    /\ position.ret.deltaScreenLines = RowCount(q, file, Len(file) - 1) - 1)
    IN IF Len(file) = 0 THEN Returns(q, TRUE)
       ELSE AtEnd(getLastVisiblePosition(q, file))

\* Pager.scrollMaxRight(): as far right as the longest visible line goes
scrollMaxRight(q, file) ==
    LET Shift(q1, maxLeft) ==
            IF maxLeft > 0
              THEN [q1 EXCEPT !.leftColumnZeroBased = maxLeft, !.showLineNumbers = FALSE]
              ELSE q1
        Rendered(rendering) ==
            IF rendering.panic THEN AfterRender(q, rendering)
            ELSE Shift(AfterRender(q, rendering),
                       longestInputLine(file, rendering.inputLines) - q.width)
    IN IF q.WrapLongLines THEN q
       ELSE Rendered(renderLines(q, file))

(***************************************************************************)
(* The four search scroll operations.  Each returns [q, path, located]:    *)
(* the pager as the call leaves it, the return statement the call took     *)
(* and the line index the scan located (Nil when none).                    *)
(***************************************************************************)
Outcome(q, path, located) ==
    [q |-> q, path |-> path, located |-> located, tested |-> <<>>]

\* The outcome of a call that ran line scans: tested is every line the scans
\* tested against the pattern, in order (history)
Scanned(outcome, tested) == [outcome EXCEPT !.tested = tested]

Moved(q, located) == Outcome(q, IF Failed(q) THEN "failed" ELSE "moved", located)

\* After a forward hit: column 0, line numbers as preferred, then walk right
showHitFromLeft(q, file) ==
    LET Seen(visible) ==
            IF Failed(visible.q) \/ visible.ret THEN visible.q
            ELSE scrollRightToSearchHits(visible.q, file).q
    IN Seen(searchHitIsVisible(
                [q EXCEPT !.leftColumnZeroBased = 0, !.showLineNumbers = q.ShowLineNumbers],
                file))

findForwardsNoWrap(file, lineIndex, cpus) ==
    findFirstHit(file, lineIndex, Nil, FALSE, cpus)

findForwardsBelowStart(file, lineIndex, cpus) ==
    LET Wrapped(first) ==
            IF first = Nil /\ lineIndex # 0
              THEN findFirstHit(file, 0, lineIndex, FALSE, cpus)
              ELSE first
    IN Wrapped(findFirstHit(file, lineIndex + 1, Nil, FALSE, cpus))

\* The forward scan with its wrap: from lineIndex to the end, then from the
\* top to before lineIndex
findForwardsWrapping(file, lineIndex, cpus) ==
    LET Wrapped(first) ==
            IF first = Nil /\ lineIndex # 0
              THEN findFirstHit(file, 0, lineIndex, FALSE, cpus)
              ELSE first
    IN Wrapped(findFirstHit(file, lineIndex, Nil, FALSE, cpus))

\* The lines the forward scan and its wrap test
findForwardsWrappingTested(file, lineIndex, cpus) ==
    findFirstHitTested(file, lineIndex, Nil, FALSE, cpus)
        \o (IF findFirstHit(file, lineIndex, Nil, FALSE, cpus) = Nil /\ lineIndex # 0
              THEN findFirstHitTested(file, 0, lineIndex, FALSE, cpus)
              ELSE <<>>)

scrollToSearchHits(q, file, cpus) ==
    LET Found(q2, firstHitIndex) ==
            IF firstHitIndex = Nil THEN Outcome(q2, "no match", Nil)
            ELSE Moved(showHitFromLeft(
                           [q2 EXCEPT !.scrollPosition =
                                         NewScrollPositionFromIndex(firstHitIndex)],
                           file),
                       firstHitIndex)
        Right(right) ==
            IF Failed(right.q) THEN Outcome(right.q, "failed", Nil)
            ELSE IF right.ret THEN Outcome(right.q, "found right", Nil)
            ELSE Scanned(Found(right.q,
                               findForwardsWrapping(file, q.scrollPosition.lineIndex, cpus)),
                         findForwardsWrappingTested(file, q.scrollPosition.lineIndex, cpus))
        Visible(visible) ==
            IF Failed(visible.q) THEN Outcome(visible.q, "failed", Nil)
            ELSE IF visible.ret THEN Outcome(visible.q, "on screen", Nil)
            ELSE Right(scrollRightToSearchHits(visible.q, file))
    IN IF ~q.searching THEN Outcome(q, "not searching", Nil)
       ELSE IF q.scrollPosition.lineIndex = Nil THEN Outcome(q, "no lines", Nil)
       ELSE Visible(searchHitIsVisible(q, file))

unknownModeNever(q) == FALSE

\* The default case of the mode switch in scrollToNextSearchHit and
\* scrollToPreviousSearchHit: neither isViewing() nor isNotFound()
unknownMode(q) == q.mode \notin {"Viewing", "NotFound"}

scrollToNextSearchHit(q, file, cpus) ==
    LET Found(q3, firstHitIndex) ==
            IF firstHitIndex = Nil
              THEN Outcome([q3 EXCEPT !.mode = "NotFound"], "no match", Nil)
              ELSE Moved(showHitFromLeft(
                             [q3 EXCEPT !.scrollPosition =
                                           NewScrollPositionFromIndex(firstHitIndex)],
                             file),
                         firstHitIndex)
        Below(position) ==
            IF Failed(position.q) THEN Outcome(position.q, "failed", Nil)
            ELSE Scanned(Found(position.q,
                               findFirstHit(file,
                                            NextLine(position.q, file, position.ret, 1).lineIndex,
                                            Nil, FALSE, cpus)),
                         findFirstHitTested(file,
                                            NextLine(position.q, file, position.ret, 1).lineIndex,
                                            Nil, FALSE, cpus))
        AtEnd(q2, end) ==
            IF Failed(end.q) THEN Outcome(end.q, "failed", Nil)
            ELSE IF q2.mode = "Viewing" /\ end.ret
              THEN Outcome([end.q EXCEPT !.mode = "NotFound"], "at end", Nil)
            ELSE IF q2.mode = "Viewing" THEN Below(getLastVisiblePosition(end.q, file))
            ELSE IF unknownMode(q2)
              THEN Outcome([q2 EXCEPT !.status = "panic"], "unknown mode", Nil)
            ELSE Scanned(Found([q2 EXCEPT !.mode = "Viewing"],
                               findFirstHit(file, 0, Nil, FALSE, cpus)),
                         findFirstHitTested(file, 0, Nil, FALSE, cpus))
        Right(right) ==
            IF Failed(right.q) THEN Outcome(right.q, "failed", Nil)
            ELSE IF right.ret THEN Outcome(right.q, "found right", Nil)
            ELSE AtEnd(right.q,
                       IF right.q.mode = "Viewing" THEN isScrolledToEnd(right.q, file)
                       ELSE Returns(right.q, FALSE))
    IN IF ~q.searching THEN Outcome(q, "not searching", Nil)
       ELSE IF GetLineCount(file) = 0 THEN Outcome(q, "no lines", Nil)
       ELSE Right(scrollRightToSearchHits(q, file))

findBackwardsNoWrap(file, lineIndex, cpus) ==
    findFirstHit(file, lineIndex, Nil, TRUE, cpus)

\* The backward scan with its wrap: from lineIndex to the top, then from the
\* last line to before lineIndex
findBackwardsWrapping(file, lineIndex, cpus) ==
    LET Wrapped(first) ==
            IF first = Nil /\ lineIndex # IndexFromLength(GetLineCount(file))
              THEN findFirstHit(file, IndexFromLength(GetLineCount(file)), lineIndex, TRUE, cpus)
              ELSE first
    IN Wrapped(findFirstHit(file, lineIndex, Nil, TRUE, cpus))

\* The lines the backward scan and its wrap test
findBackwardsWrappingTested(file, lineIndex, cpus) ==
    findFirstHitTested(file, lineIndex, Nil, TRUE, cpus)
        \o (IF /\ findFirstHit(file, lineIndex, Nil, TRUE, cpus) = Nil
               /\ lineIndex # IndexFromLength(GetLineCount(file))
              THEN findFirstHitTested(file, IndexFromLength(GetLineCount(file)), lineIndex,
                                      TRUE, cpus)
              ELSE <<>>)

\* After a backward hit: as far right as it goes, then walk left
showHitFromRight(q, file) ==
    LET Seen(visible) ==
            IF Failed(visible.q) \/ visible.ret THEN visible.q
            ELSE scrollLeftToSearchHits(visible.q, file).q
        MaxRight(q1) ==
            IF Failed(q1) THEN q1 ELSE Seen(searchHitIsVisible(q1, file))
    IN MaxRight(scrollMaxRight(q, file))

scrollToSearchHitsBackwards(q, file, cpus) ==
    LET Found(q2, firstHitIndex) ==
            IF firstHitIndex = Nil THEN Outcome(q2, "no match", Nil)
            ELSE Moved(showHitFromRight(
                           [q2 EXCEPT !.scrollPosition =
                                         PreviousLine(q2, file,
                                                      NewScrollPositionFromIndex(firstHitIndex),
                                                      visibleHeight(q2) - 1)],
                           file),
                       firstHitIndex)
        Left(lineIndex, left) ==
            IF Failed(left.q) THEN Outcome(left.q, "failed", Nil)
            ELSE IF left.ret THEN Outcome(left.q, "found left", Nil)
            ELSE Scanned(Found(left.q, findBackwardsWrapping(file, lineIndex, cpus)),
                         findBackwardsWrappingTested(file, lineIndex, cpus))
        Visible(lineIndex, visible) ==
            IF Failed(visible.q) THEN Outcome(visible.q, "failed", Nil)
            ELSE IF visible.ret THEN Outcome(visible.q, "on screen", Nil)
            ELSE Left(lineIndex, scrollLeftToSearchHits(visible.q, file))
        Bottom(lastVisiblePosition) ==
            IF Failed(lastVisiblePosition.q) THEN Outcome(lastVisiblePosition.q, "failed", Nil)
            ELSE IF lastVisiblePosition.ret.lineIndex = Nil
              THEN Outcome(lastVisiblePosition.q, "no lines", Nil)
            ELSE Visible(lastVisiblePosition.ret.lineIndex,
                         searchHitIsVisible(lastVisiblePosition.q, file))
    IN IF ~q.searching THEN Outcome(q, "not searching", Nil)
       ELSE Bottom(getLastVisiblePosition(q, file))

scrollToPreviousSearchHit(q, file, cpus) ==
    LET Found(firstHitIndex) ==
            IF firstHitIndex = Nil
              THEN Outcome([q EXCEPT !.mode = "NotFound"], "no match", Nil)
              ELSE Outcome([q EXCEPT !.mode = "Viewing",
                                     !.scrollPosition = NewScrollPositionFromIndex(firstHitIndex)],
                           "moved", firstHitIndex)
        From(firstSearchIndex) ==
            Scanned(Found(findFirstHit(file, firstSearchIndex, Nil, TRUE, cpus)),
                    findFirstHitTested(file, firstSearchIndex, Nil, TRUE, cpus))
    IN IF ~q.searching THEN Outcome(q, "not searching", Nil)
       ELSE IF GetLineCount(file) = 0 THEN Outcome(q, "no lines", Nil)
       ELSE IF unknownMode(q)
         THEN Outcome([q EXCEPT !.status = "panic"], "unknown mode", Nil)
       ELSE From(IF q.mode = "Viewing"
                   THEN PreviousLine(q, file, q.scrollPosition, 1).lineIndex
                   ELSE IndexFromLength(GetLineCount(file)))

(***************************************************************************)
(* findFirstHit as it runs: one goroutine per chunk, each sending its one  *)
(* finding on its own unbuffered channel, and the caller receiving from    *)
(* the channels in chunk order.                                            *)
(*   find.w[i].st:  "scan"  the worker is in _findFirstHit at w[i].pos      *)
(*                  "send"  it is blocked in findings[i] <- res            *)
(*                  "done"  its send was received, the goroutine ended     *)
(*                  "panicked"  it failed, the deferred PanicHandler ran   *)
(*   find.pc:       "collect" the caller is blocked in <-findings[next]    *)
(*                  "returned"                                             *)
(*   find.finished: chunk indices in the order their scans ended (history) *)
(*   find.tested:   the lines fetched and matched so far (history)         *)
(***************************************************************************)
Chunks(f) == 0..(f.cc - 1)

\* The state right after the spawn loop
FindCall(file, startPosition, beforePosition, backwards, cpus) ==
    LET cc == chunkCount(file, startPosition, beforePosition, backwards, cpus)
    IN [start |-> startPosition, before |-> beforePosition, backwards |-> backwards,
        cc |-> cc,
        w |-> [i \in 0..(cc - 1) |->
                 [st |-> "scan",
                  pos |-> searchStarts(file, startPosition, beforePosition, backwards, cpus, i),
                  before |-> chunkBefore(file, startPosition, beforePosition, backwards, cpus, i),
                  res |-> Nil]],
        next |-> 0, pc |-> "collect", result |-> Nil, finished |-> <<>>,
        tested |-> {}]

FindIdle ==
    [start |-> 0, before |-> Nil, backwards |-> FALSE, cc |-> 0,
     w |-> <<>>, next |-> 0, pc |-> "idle", result |-> Nil, finished |-> <<>>,
     tested |-> {}]

\* A worker runs one iteration of _findFirstHit's loop
WorkerScan(i) ==
    /\ i \in Chunks(find)
    /\ find.w[i].st = "scan"
    /\ LET s == findStep(lines, find.w[i].pos, find.w[i].before, find.backwards)
       IN find' = [find EXCEPT
                     !.w[i].pos = s.pos,
                     !.w[i].res = s.res,
                     !.w[i].st = IF s.done THEN "send" ELSE "scan",
                     !.finished = IF s.done THEN Append(@, i) ELSE @,
                     !.tested = IF HasLine(lines, find.w[i].pos)
                                  THEN @ \cup {find.w[i].pos} ELSE @]
    /\ UNCHANGED <<call, lines, numCPU, p, last, screen, term, ml, consumer, rendered>>

\* A worker fails while processing a line: the panic unwinds past the send,
\* the deferred handler recovers and the goroutine ends with nothing sent.
WorkerPanic(i) ==
    /\ i \in Chunks(find)
    /\ find.w[i].st = "scan"
    /\ HasLine(lines, find.w[i].pos)
    /\ find' = [find EXCEPT !.w[i].st = "panicked"]
    /\ UNCHANGED <<call, lines, numCPU, p, last, screen, term, ml, consumer, rendered>>

\* The channel the collector's loop receives from
collectIndexAnyReady(f) ==
    IF \E i \in Chunks(f) : f.w[i].st = "send"
      THEN CHOOSE i \in Chunks(f) : f.w[i].st = "send" /\ \A j \in Chunks(f) : f.w[j].st = "send" => j <= i
      ELSE f.next

collectIndex(f) ==
    f.next

\* result := <-finding, the rendezvous with the worker blocked in its send
Collect ==
    /\ find.pc = "collect"
    /\ LET k == collectIndex(find)
       IN /\ k \in Chunks(find)
          /\ find.w[k].st = "send"
          /\ IF find.w[k].res # Nil
               THEN find' = [find EXCEPT !.w[k].st = "done", !.pc = "returned",
                                         !.result = find.w[k].res]
               ELSE IF find.next + 1 < find.cc
                 THEN find' = [find EXCEPT !.w[k].st = "done", !.next = @ + 1]
                 ELSE find' = [find EXCEPT !.w[k].st = "done", !.next = @ + 1,
                                           !.pc = "returned", !.result = Nil]
    /\ UNCHANGED <<call, lines, numCPU, p, last, screen, term, ml, consumer, rendered>>

(***************************************************************************)
(* Values of the variables a specification does not use                    *)
(***************************************************************************)
PagerIdle ==
    [scrollPosition |-> [lineIndex |-> Nil, deltaScreenLines |-> 0],
     leftColumnZeroBased |-> 0, showLineNumbers |-> FALSE, ShowLineNumbers |-> FALSE,
     WrapLongLines |-> FALSE, mode |-> "Viewing", searching |-> FALSE,
     longestLineLength |-> 0, width |-> 1, height |-> 2, prefixLength |-> 2,
     status |-> "ok"]
LastIdle ==
    [op |-> "none", path |-> "none", located |-> Nil, before |-> PagerIdle,
     tested |-> <<>>,
     previous |-> [op |-> "none", path |-> "none", mode |-> "Viewing", tested |-> <<>>]]
ScreenIdle == [status |-> "idle"]
TermIdle == [status |-> "idle"]
MainLoopIdle == [pc |-> "idle"]
ConsumerIdle == [status |-> "idle"]
RenderedIdle == [done |-> FALSE]
CallIdle == [fn |-> "none"]

(***************************************************************************)
(* SpecPager: the search scroll operations called in any order, on every   *)
(* file and pager of the bounds.  last records the latest call: its name,  *)
(* its return path, the line it located, the pager before the call, the    *)
(* lines its scans tested, and of the call before it the name, the return  *)
(* path, the mode it began in and the lines it tested.                     *)
(***************************************************************************)
PlainLine == Line(<<"a">>, FALSE)
\* four columns wide, its hit in the last one
FarHitLine == Line(<<"a", "W", "x">>, FALSE)

PagerFiles == UNION {[1..n -> {PlainLine, FarHitLine}] : n \in 1..PagerMaxLines}

PagerStates(file) ==
    {q \in [scrollPosition : {[lineIndex |-> i, deltaScreenLines |-> 0] : i \in 0..(Len(file) - 1)},
            leftColumnZeroBased : {0},
            showLineNumbers : BOOLEAN, ShowLineNumbers : BOOLEAN,
            WrapLongLines : BOOLEAN, mode : {"Viewing"}, searching : {TRUE},
            longestLineLength : {0}, width : 1..MaxWidth, height : 2..MaxHeight,
            prefixLength : {MaxPrefix}, status : {"ok"}] :
        q.showLineNumbers = q.ShowLineNumbers}

PagerInit ==
    /\ lines \in PagerFiles
    /\ p \in PagerStates(lines)
    /\ numCPU = PagerCPUs
    /\ last = LastIdle
    /\ find = FindIdle
    /\ screen = ScreenIdle
    /\ term = TermIdle
    /\ ml = MainLoopIdle
    /\ consumer = ConsumerIdle
    /\ rendered = RenderedIdle
    /\ call = CallIdle

\* What every call leaves behind: the pager, and the record of the call
Called(op, outcome) ==
    /\ p' = outcome.q
    /\ last' = [op |-> op, path |-> outcome.path, located |-> outcome.located, before |-> p,
                tested |-> outcome.tested,
                previous |-> [op |-> last.op, path |-> last.path,
                              mode |-> last.before.mode, tested |-> last.tested]]

DoScrollToSearchHits ==
    /\ p.status = "ok"
    /\ Called("scrollToSearchHits", scrollToSearchHits(p, lines, numCPU))
    /\ UNCHANGED <<call, lines, numCPU, find, screen, term, ml, consumer, rendered>>

DoScrollToNextSearchHit ==
    /\ p.status = "ok"
    /\ Called("scrollToNextSearchHit", scrollToNextSearchHit(p, lines, numCPU))
    /\ UNCHANGED <<call, lines, numCPU, find, screen, term, ml, consumer, rendered>>

DoScrollToSearchHitsBackwards ==
    /\ p.status = "ok"
    /\ Called("scrollToSearchHitsBackwards", scrollToSearchHitsBackwards(p, lines, numCPU))
    /\ UNCHANGED <<call, lines, numCPU, find, screen, term, ml, consumer, rendered>>

DoScrollToPreviousSearchHit ==
    /\ p.status = "ok"
    /\ Called("scrollToPreviousSearchHit", scrollToPreviousSearchHit(p, lines, numCPU))
    /\ UNCHANGED <<call, lines, numCPU, find, screen, term, ml, consumer, rendered>>

PagerNext ==
    \/ DoScrollToSearchHits
    \/ DoScrollToNextSearchHit
    \/ DoScrollToSearchHitsBackwards
    \/ DoScrollToPreviousSearchHit

SpecPager == PagerInit /\ [][PagerNext]_vars

Matching(file) == {i \in 0..(Len(file) - 1) : MatchString(GetLine(file, i))}
Lowest(S) == CHOOSE i \in S : \A j \in S : i <= j
Highest(S) == CHOOSE i \in S : \A j \in S : i >= j

\* The call ran its line scan and returned
ScanReturned(op) == last.op = op /\ last.path \in {"moved", "no match"}

\* C3: when scrollToSearchHits gets as far as its line scan, it moves the
\* scroll position to the first matching line at or after the top line,
\* else to the first matching line above the top line, else not at all
C3_ForwardScanThenWrap ==
    ScanReturned("scrollToSearchHits") =>
        LET top == last.before.scrollPosition.lineIndex
            ahead == {i \in Matching(lines) : i >= top}
            above == {i \in Matching(lines) : i < top}
        IN IF ahead # {} THEN p.scrollPosition = NewScrollPositionFromIndex(Lowest(ahead))
           ELSE IF above # {} THEN p.scrollPosition = NewScrollPositionFromIndex(Lowest(above))
           ELSE p.scrollPosition = last.before.scrollPosition

\* C3 witness: no match from the top line on, the scan wrapped and moved to
\* a matching line above it
C3_WrappedToTop ==
    /\ ScanReturned("scrollToSearchHits")
    /\ last.located # Nil
    /\ last.located < last.before.scrollPosition.lineIndex
    /\ p.scrollPosition.lineIndex = last.located

\* C4: when scrollToSearchHitsBackwards gets as far as its line scan, it
\* locates the last matching line at or before the bottom visible line,
\* else the last matching line after it, else none
C4_BackwardScanThenWrap ==
    ScanReturned("scrollToSearchHitsBackwards") =>
        LET start == getLastVisiblePosition(last.before, lines).ret.lineIndex
            behind == {i \in Matching(lines) : i <= start}
            after == {i \in Matching(lines) : i > start}
        IN IF behind # {} THEN last.located = Highest(behind)
           ELSE IF after # {} THEN last.located = Highest(after)
           ELSE last.located = Nil

\* C4 witness: no match at or before the start line, the scan wrapped and
\* located a matching line after it
C4_WrappedToBottom ==
    /\ ScanReturned("scrollToSearchHitsBackwards")
    /\ last.located # Nil
    /\ last.located > getLastVisiblePosition(last.before, lines).ret.lineIndex

NextOrPrevious == {"scrollToNextSearchHit", "scrollToPreviousSearchHit"}

C6_SuccessLeavesNotFound ==
    (/\ last.op \in NextOrPrevious
     /\ last.before.mode = "NotFound"
     /\ last.path \in {"found right", "moved"}) => p.mode = "Viewing"

NoLineTwice(tested) ==
    \A i \in 1..Len(tested) : \A j \in 1..Len(tested) : i # j => tested[i] # tested[j]

\* C25: a forward scan and its retry from the top test no line twice: the
\* two scans of one scrollToSearchHits call, and the scan of a
\* scrollToNextSearchHit call that found nothing below the screen together
\* with the scan of the following call, which starts over from the top.
C25_NoLineTestedTwice ==
    /\ last.op = "scrollToSearchHits" => NoLineTwice(last.tested)
    /\ (/\ last.op = "scrollToNextSearchHit"
        /\ last.before.mode = "NotFound"
        /\ last.previous.op = "scrollToNextSearchHit"
        /\ last.previous.mode = "Viewing"
        /\ last.previous.path = "no match")
           => NoLineTwice(last.previous.tested \o last.tested)

\* C26: in Viewing mode scrollToPreviousSearchHit never selects the top line
\* of the screen or a line below it, whatever the top line is, line 0
\* included: the line it moves to is above the top line it started from.
C26_PreviousSelectsAboveTop ==
    (/\ last.op = "scrollToPreviousSearchHit"
     /\ last.before.mode = "Viewing"
     /\ last.path = "moved")
        => last.located < last.before.scrollPosition.lineIndex

\* C28: when scrollToSearchHits scanned from line 0, found nothing and gave
\* up without a retry, no line of the file matches the pattern, line 0
\* included: the give up skips no match.
C28_GiveUpAtTopSkipsNoMatch ==
    (/\ last.op = "scrollToSearchHits"
     /\ last.path = "no match"
     /\ last.before.scrollPosition.lineIndex = 0)
        => /\ Matching(lines) = {}
           /\ \A i \in 0..(Len(lines) - 1) : \E k \in 1..Len(last.tested) : last.tested[k] = i

\* C28 witness: the scan started at line 0 of a file of several lines,
\* tested every line once and the call gave up
C28_GaveUpAtTop ==
    /\ last.op = "scrollToSearchHits"
    /\ last.path = "no match"
    /\ last.before.scrollPosition.lineIndex = 0
    /\ Len(lines) >= 2
    /\ Len(last.tested) = Len(lines)
    /\ p = last.before

(***************************************************************************)
(* SpecNoMatch: the next and previous operations called in any order, on   *)
(* files that also hold a line without a match that is wider than the      *)
(* narrow screens, so that the walk to the right can move and give up.     *)
(***************************************************************************)
LongPlainLine == Line(<<"a", "a", "a">>, FALSE)

NoMatchFiles ==
    UNION {[1..n -> {PlainLine, FarHitLine, LongPlainLine}] : n \in 1..NoMatchMaxLines}

NoMatchInit ==
    /\ lines \in NoMatchFiles
    /\ p \in PagerStates(lines)
    /\ numCPU = PagerCPUs
    /\ last = LastIdle
    /\ find = FindIdle
    /\ screen = ScreenIdle
    /\ term = TermIdle
    /\ ml = MainLoopIdle
    /\ consumer = ConsumerIdle
    /\ rendered = RenderedIdle
    /\ call = CallIdle

NoMatchNext == DoScrollToNextSearchHit \/ DoScrollToPreviousSearchHit

SpecNoMatch == NoMatchInit /\ [][NoMatchNext]_vars

\* scrollToNextSearchHit or scrollToPreviousSearchHit returned after
\* findFirstHit found nothing
NoMatchReturned == last.op \in NextOrPrevious /\ last.path = "no match"

ModeStates(file) ==
    {q \in [scrollPosition : {[lineIndex |-> i, deltaScreenLines |-> 0] : i \in 0..(Len(file) - 1)},
            leftColumnZeroBased : {0},
            showLineNumbers : BOOLEAN, ShowLineNumbers : BOOLEAN,
            WrapLongLines : BOOLEAN, mode : {"Viewing", "NotFound", "Search"},
            searching : BOOLEAN,
            longestLineLength : {0}, width : 1..MaxWidth, height : 2..MaxHeight,
            prefixLength : {MaxPrefix}, status : {"ok"}] :
        q.showLineNumbers = q.ShowLineNumbers}

ModeInit ==
    /\ lines \in PagerFiles
    /\ p \in ModeStates(lines)
    /\ numCPU = PagerCPUs
    /\ last = LastIdle
    /\ find = FindIdle
    /\ screen = ScreenIdle
    /\ term = TermIdle
    /\ ml = MainLoopIdle
    /\ consumer = ConsumerIdle
    /\ rendered = RenderedIdle
    /\ call = CallIdle

ModeNext == DoScrollToNextSearchHit \/ DoScrollToPreviousSearchHit

SpecMode == ModeInit /\ [][ModeNext]_vars

CalledInUnknownMode ==
    /\ last.op \in {"scrollToNextSearchHit", "scrollToPreviousSearchHit"}
    /\ last.before.mode \notin {"Viewing", "NotFound"}

\* C34 as stated: a next or previous call made in a mode that is neither
\* Viewing nor NotFound never returns normally.
C34_UnknownModeAlwaysAborts ==
    CalledInUnknownMode => p.status # "ok"

\* C34: a next or previous call made in a mode that is neither Viewing nor
\* NotFound aborts when it gets to the mode switch: a search pattern is set
\* and, for next, the walk to the right showed no hit.  Without a search
\* pattern the call returns at once and changes nothing; a next call whose
\* walk to the right shows a hit returns with the mode as it was.
C34_UnknownModeAbortsAtSwitch ==
    CalledInUnknownMode =>
        /\ (last.before.searching /\ last.path # "found right") => p.status # "ok"
        /\ last.path = "unknown mode" => p.status = "panic"
        /\ ~last.before.searching => p = last.before
        /\ last.path = "found right" =>
              /\ last.op = "scrollToNextSearchHit"
              /\ p.status = "ok"
              /\ p.mode = last.before.mode

\* C34 witness: previous was called in the search prompt's mode with a
\* pattern set, and aborted at the switch
C34_AbortedAtSwitch ==
    /\ last.op = "scrollToPreviousSearchHit"
    /\ last.before.mode = "Search"
    /\ last.before.searching
    /\ last.path = "unknown mode"
    /\ p.status = "panic"

\* C14: when scrollToSearchHitsBackwards or scrollToPreviousSearchHit has
\* located a matching line, the scroll position it sets is the position of
\* that line moved back by visibleHeight - 1 rows
C14_BackwardHitAtBottom ==
    (/\ last.op \in {"scrollToSearchHitsBackwards", "scrollToPreviousSearchHit"}
     /\ last.path = "moved")
        => p.scrollPosition =
               PreviousLine(last.before, lines, NewScrollPositionFromIndex(last.located),
                            visibleHeight(last.before) - 1)

(***************************************************************************)
(* SpecWalk: the two horizontal walks called in any order, from every      *)
(* column and line number state the pager gets into.                       *)
(***************************************************************************)
\* six columns wide, no hit
WideLine == Line(<<"W", "W", "W">>, FALSE)

WalkFiles == UNION {[1..n -> {PlainLine, FarHitLine, WideLine}] : n \in 1..WalkMaxLines}

WalkStates(file) ==
    {q \in [scrollPosition : {[lineIndex |-> i, deltaScreenLines |-> 0] : i \in 0..(Len(file) - 1)},
            leftColumnZeroBased : 0..WalkMaxLeft,
            showLineNumbers : BOOLEAN, ShowLineNumbers : BOOLEAN,
            WrapLongLines : BOOLEAN, mode : {"Viewing"}, searching : {TRUE},
            longestLineLength : {0}, width : 1..MaxWidth, height : 2..MaxHeight,
            prefixLength : 2..MaxPrefix, status : {"ok"}] :
        /\ q.showLineNumbers => q.ShowLineNumbers
        /\ q.leftColumnZeroBased > 0 => ~q.showLineNumbers
        /\ q.WrapLongLines => (q.leftColumnZeroBased = 0 /\ q.showLineNumbers = q.ShowLineNumbers)}

WalkInit ==
    /\ lines \in WalkFiles
    /\ p \in WalkStates(lines)
    /\ numCPU = 1
    /\ last = LastIdle
    /\ find = FindIdle
    /\ screen = ScreenIdle
    /\ term = TermIdle
    /\ ml = MainLoopIdle
    /\ consumer = ConsumerIdle
    /\ rendered = RenderedIdle
    /\ call = CallIdle

Walked(walk) ==
    Outcome(walk.q, IF Failed(walk.q) THEN "failed" ELSE IF walk.ret THEN "true" ELSE "false", Nil)

DoScrollRightToSearchHits ==
    /\ p.status = "ok"
    /\ Called("scrollRightToSearchHits", Walked(scrollRightToSearchHits(p, lines)))
    /\ UNCHANGED <<call, lines, numCPU, find, screen, term, ml, consumer, rendered>>

DoScrollLeftToSearchHits ==
    /\ p.status = "ok"
    /\ Called("scrollLeftToSearchHits", Walked(scrollLeftToSearchHits(p, lines)))
    /\ UNCHANGED <<call, lines, numCPU, find, screen, term, ml, consumer, rendered>>

WalkNext == DoScrollRightToSearchHits \/ DoScrollLeftToSearchHits

SpecWalk == WalkInit /\ [][WalkNext]_vars

WalkReturned(ret) ==
    /\ last.op \in {"scrollRightToSearchHits", "scrollLeftToSearchHits"}
    /\ last.path = ret

\* C12: a walk that returns true leaves a state whose rendered screen has a
\* row with a cell that starts a search hit; a walk that returns false
\* leaves leftColumnZeroBased and showLineNumbers as they were before it
C12_WalkPostcondition ==
    /\ WalkReturned("true") =>
         /\ ~renderLines(p, lines).panic
         /\ RowsShowHit(renderLines(p, lines).lines)
    /\ WalkReturned("false") =>
         /\ p.leftColumnZeroBased = last.before.leftColumnZeroBased
         /\ p.showLineNumbers = last.before.showLineNumbers

\* C12 witness: scrollRightToSearchHits started with line numbers shown,
\* hid them to walk right over a line longer than the screen, found no hit
\* and returned false
C12_WalkedRightInVain ==
    /\ last.op = "scrollRightToSearchHits"
    /\ last.path = "false"
    /\ ~p.WrapLongLines
    /\ last.before.showLineNumbers
    /\ last.before.width - last.before.prefixLength - 1 > 0
    /\ \E i \in 1..Len(lines) :
         /\ i - 1 >= p.scrollPosition.lineIndex
         /\ i - 1 < p.scrollPosition.lineIndex + visibleHeight(p)
         /\ LineDisplayWidth(lines[i]) - p.width > last.before.leftColumnZeroBased

\* C29: scrollRightToSearchHits returns for every screen width from 1 up,
\* every gutter width and every line length: no iteration of its loop leaves
\* the pager as it found it, and the horizontal offset it leaves is never
\* lower than the one it started from.
C29_WalkRightReturns ==
    last.op = "scrollRightToSearchHits" =>
        /\ p.status # "hang"
        /\ p.leftColumnZeroBased >= last.before.leftColumnZeroBased

\* C30: scrollLeftToSearchHits returns for every screen width from 1 up,
\* every gutter width and either line number preference: no iteration of
\* its loop leaves the pager as it found it, and the horizontal offset it
\* leaves is never higher than the one it started from.
C30_WalkLeftReturns ==
    last.op = "scrollLeftToSearchHits" =>
        /\ p.status # "hang"
        /\ p.leftColumnZeroBased <= last.before.leftColumnZeroBased

(***************************************************************************)
(* SpecHit: the two forward scroll operations without line wrapping, on    *)
(* files that also hold a line whose match is in its second column and     *)
(* that is one column longer than that.                                    *)
(***************************************************************************)
HiddenHitLine == Line(<<"a", "x", "a">>, FALSE)

HitFiles == UNION {[1..n -> {PlainLine, FarHitLine, HiddenHitLine}] : n \in 1..HitMaxLines}

HitInit ==
    /\ lines \in HitFiles
    /\ p \in {q \in PagerStates(lines) : ~q.WrapLongLines}
    /\ numCPU = 1
    /\ last = LastIdle
    /\ find = FindIdle
    /\ screen = ScreenIdle
    /\ term = TermIdle
    /\ ml = MainLoopIdle
    /\ consumer = ConsumerIdle
    /\ rendered = RenderedIdle
    /\ call = CallIdle

HitNext == DoScrollToSearchHits \/ DoScrollToNextSearchHit

SpecHit == HitInit /\ [][HitNext]_vars

\* C13: without line wrapping, when scrollToSearchHits or
\* scrollToNextSearchHit has moved the scroll position to a matching line and
\* returned, a cell that starts a search hit is on screen.  Screens no wider
\* than the line number gutter, where the walk gives up, are left out.
C13_MovedShowsHit ==
    (/\ last.op \in {"scrollToSearchHits", "scrollToNextSearchHit"}
     /\ last.path = "moved"
     /\ ~p.WrapLongLines
     /\ p.ShowLineNumbers => p.width > p.prefixLength)
        => /\ ~renderLines(p, lines).panic
           /\ RowsShowHit(renderLines(p, lines).lines)

(***************************************************************************)
(* SpecFind: one findFirstHit call on every file, range, direction and CPU *)
(* count of the bounds, its workers and its collector interleaved in every *)
(* order.  SpecFindPanic adds a worker failing while it scans.             *)
(***************************************************************************)
MatchingLine == Line(<<"x">>, FALSE)

FindFiles == UNION {[1..n -> {PlainLine, MatchingLine}] : n \in 1..MaxLines}

\* The bounds a caller passes: none, or a line beyond the start in scan order
FindBefores(file, startPosition, backwards) ==
    {Nil} \cup (IF backwards THEN 0..(startPosition - 1)
                ELSE (startPosition + 1)..(Len(file) - 1))

FindInit ==
    /\ lines \in FindFiles
    /\ numCPU \in 1..MaxCPU
    /\ \E startPosition \in 0..(Len(lines) - 1), backwards \in BOOLEAN :
         \E beforePosition \in FindBefores(lines, startPosition, backwards) :
           find = FindCall(lines, startPosition, beforePosition, backwards, numCPU)
    /\ p = PagerIdle
    /\ last = LastIdle
    /\ screen = ScreenIdle
    /\ term = TermIdle
    /\ ml = MainLoopIdle
    /\ consumer = ConsumerIdle
    /\ rendered = RenderedIdle
    /\ call = CallIdle

FindNext ==
    \/ \E i \in 0..(MaxCPU - 1) : WorkerScan(i)
    \/ Collect

SpecFind == FindInit /\ [][FindNext]_vars

FindPanicNext ==
    \/ \E i \in 0..(MaxCPU - 1) : WorkerScan(i)
    \/ \E i \in 0..(MaxCPU - 1) : WorkerPanic(i)
    \/ Collect

SpecFindPanic == FindInit /\ [][FindPanicNext]_vars

\* The lines a sequential scan of the call's range tests
ScanRange(file, f) ==
    IF f.backwards
      THEN {i \in 0..(Len(file) - 1) : i <= f.start /\ (f.before # Nil => f.before < i)}
      ELSE {i \in 0..(Len(file) - 1) : f.start <= i /\ (f.before # Nil => i < f.before)}

ScanHits(file, f) == {i \in ScanRange(file, f) : MatchString(GetLine(file, i))}

\* C1: whatever the CPU count and the order the workers finish in, the call
\* returns the first matching line of its range in scan order, the smallest
\* index forward and the largest backward, and nil exactly when no line of
\* the range matches
C1_ResultIsSequentialScan ==
    find.pc = "returned" =>
        IF ScanHits(lines, find) = {} THEN find.result = Nil
        ELSE /\ find.result \in ScanHits(lines, find)
             /\ \A i \in ScanHits(lines, find) :
                  IF find.backwards THEN i <= find.result ELSE find.result <= i

\* C1 witness: a later chunk's worker finished first with a match, and the
\* call returned the match of chunk 0
C1_EarlierChunkWon ==
    /\ find.pc = "returned"
    /\ find.cc >= 2
    /\ Len(find.finished) >= 2
    /\ find.finished[1] # 0
    /\ find.w[find.finished[1]].res # Nil
    /\ find.w[0].res # Nil
    /\ find.result = find.w[0].res
    /\ find.result # find.w[find.finished[1]].res

\* C2: a worker that fails does not keep the call from returning: the
\* collector is never left waiting on the channel of a worker that ended
\* without sending
C2_CollectorNeverWaitsOnFailedWorker ==
    ~(/\ find.pc = "collect"
      /\ find.next \in Chunks(find)
      /\ find.w[find.next].st = "panicked")

\* C15: once the call has returned no worker is left blocked in the send of
\* its finding; the collector has returned and receives from no channel any
\* more, so a worker in its send then stays there for good
C15_NoWorkerBlockedAfterReturn ==
    ~(/\ find.pc = "returned"
      /\ \E i \in Chunks(find) : find.w[i].st = "send")

(***************************************************************************)
(* findFirstHit for every bound a caller could write down: none, a line    *)
(* ahead of the start in scan order, or the start line itself.             *)
(***************************************************************************)
BoundInit ==
    /\ lines \in FindFiles
    /\ numCPU \in 1..MaxCPU
    /\ \E startPosition \in 0..(Len(lines) - 1), backwards \in BOOLEAN :
         \E beforePosition \in FindBefores(lines, startPosition, backwards) \cup {startPosition} :
           find = FindCall(lines, startPosition, beforePosition, backwards, numCPU)
    /\ p = PagerIdle
    /\ last = LastIdle
    /\ screen = ScreenIdle
    /\ term = TermIdle
    /\ ml = MainLoopIdle
    /\ consumer = ConsumerIdle
    /\ rendered = RenderedIdle
    /\ call = CallIdle

SpecBound == BoundInit /\ [][FindNext]_vars

\* The lines at the bound and beyond it in scan order
AtOrBeyond(f) ==
    IF f.backwards THEN 0..f.before ELSE f.before..(Len(lines) - 1)

HasPrefix(bytes, prefix) ==
    Len(bytes) >= Len(prefix) /\ SubSeq(bytes, 1, Len(prefix)) = prefix

HasSuffix(bytes, suffix) ==
    /\ Len(bytes) >= Len(suffix)
    /\ SubSeq(bytes, Len(bytes) - Len(suffix) + 1, Len(bytes)) = suffix

TrimPrefix(bytes, prefix) ==
    IF HasPrefix(bytes, prefix) THEN SubSeq(bytes, Len(prefix) + 1, Len(bytes)) ELSE bytes

TrimSuffix(bytes, suffix) ==
    IF HasSuffix(bytes, suffix) THEN SubSeq(bytes, 1, Len(bytes) - Len(suffix)) ELSE bytes

\* prefix := "\x1b]11;rgb:"
BgPrefix == <<"ESC", "]", "1", "1", ";", "r", "g", "b", ":">>
\* suffix1 := "\x07" and suffix2 := "\x1b\\"
BgSuffix1 == <<"BEL">>
BgSuffix2 == <<"ESC", "\\">>

HexDigits ==
    <<"0", "1", "2", "3", "4", "5", "6", "7", "8", "9", "a", "b", "c", "d", "e", "f">>

HexDigitsUpper ==
    <<"0", "1", "2", "3", "4", "5", "6", "7", "8", "9", "A", "B", "C", "D", "E", "F">>

IsHexDigit(byte) == \E i \in 1..16 : HexDigits[i] = byte \/ HexDigitsUpper[i] = byte

HexValueLettersAsZero(byte) ==
    IF \E i \in 1..10 : HexDigits[i] = byte
      THEN (CHOOSE i \in 1..10 : HexDigits[i] = byte) - 1
      ELSE 0

HexValue(byte) ==
    (CHOOSE i \in 1..16 : HexDigits[i] = byte \/ HexDigitsUpper[i] = byte) - 1

\* strconv.ParseUint(s, 16, 16): [err, value]
RECURSIVE ParseUint(_)
ParseUint(s) ==
    LET More(init, digit) ==
            IF init.err \/ ~IsHexDigit(digit) THEN [err |-> TRUE, value |-> 0]
            ELSE [err |-> FALSE, value |-> init.value * 16 + HexValue(digit)]
    IN IF s = <<>> THEN [err |-> TRUE, value |-> 0]
       ELSE IF Len(s) = 1
         THEN IF IsHexDigit(s[1]) THEN [err |-> FALSE, value |-> HexValue(s[1])]
              ELSE [err |-> TRUE, value |-> 0]
       ELSE More(ParseUint(SubSeq(s, 1, Len(s) - 1)), s[Len(s)])

\* A nil *Color
NoColor == [red |-> Nil, green |-> Nil, blue |-> Nil]

uint8(n) == n % 256

\* NewColor24Bit
NewColor24Bit(red, green, blue) == [red |-> red, green |-> green, blue |-> blue]

\* Result: [bg, valid]; bg is NoColor for nil
parseTerminalBgColorResponse(responseBytes) ==
    LET Invalid == [bg |-> NoColor, valid |-> FALSE]
        Channels(red, green, blue) ==
            IF red.err \/ green.err \/ blue.err THEN Invalid
            ELSE [bg |-> NewColor24Bit(uint8(red.value \div 256), uint8(green.value \div 256),
                                       uint8(blue.value \div 256)),
                  valid |-> TRUE]
        Parsed(response) ==
            IF Len(response) # 14 THEN Invalid
            ELSE Channels(ParseUint(SubSeq(response, 1, 4)),
                          ParseUint(SubSeq(response, 6, 9)),
                          ParseUint(SubSeq(response, 11, 14)))
        Suffixed(response, isComplete) ==
            IF /\ ~isComplete
               /\ \/ Len(responseBytes) < Len(BgPrefix) + 14 + Len(BgSuffix1)
                  \/ Len(responseBytes) < Len(BgPrefix) + 14 + Len(BgSuffix2)
              THEN [bg |-> NoColor, valid |-> TRUE]
            ELSE IF ~isComplete THEN Invalid
            ELSE Parsed(TrimSuffix(TrimSuffix(response, BgSuffix1), BgSuffix2))
        Prefixed(response) ==
            Suffixed(response, HasSuffix(response, BgSuffix1) \/ HasSuffix(response, BgSuffix2))
    IN IF ~HasPrefix(responseBytes, BgPrefix) THEN Invalid
       ELSE Prefixed(TrimPrefix(responseBytes, BgPrefix))

\* utf8.DecodeRune on the start of a non-empty byte string: [rune, size];
\* an invalid byte decodes to U+FFFD and is one byte long
DecodeRune(bytes) ==
    IF HasPrefix(bytes, <<"C3", "A9">>) THEN [rune |-> "e-acute", size |-> 2]
    ELSE IF HasPrefix(bytes, <<"EF", "BF", "BD">>) THEN [rune |-> "U+FFFD", size |-> 3]
    ELSE IF bytes[1] \in {"C3", "A9", "EF", "BF", "BD", "BAD"}
      THEN [rune |-> "U+FFFD", size |-> 1]
    ELSE [rune |-> bytes[1], size |-> 1]

\* utf8.ValidString
RECURSIVE ValidString(_)
ValidString(bytes) ==
    IF bytes = <<>> THEN TRUE
    ELSE IF DecodeRune(bytes).rune = "U+FFFD" /\ DecodeRune(bytes).size = 1 THEN FALSE
    ELSE ValidString(SubSeq(bytes, DecodeRune(bytes).size + 1, Len(bytes)))

BytesAsRunes(bytes) == bytes

\* []rune(s)
RECURSIVE ToRunes(_)
ToRunes(bytes) ==
    IF bytes = <<>> THEN <<>>
    ELSE <<DecodeRune(bytes).rune>>
           \o ToRunes(SubSeq(bytes, DecodeRune(bytes).size + 1, Len(bytes)))

\* string(runes)
RECURSIVE RunesToString(_)
RunesToString(runes) ==
    IF runes = <<>> THEN <<>>
    ELSE (CASE Head(runes) = "e-acute" -> <<"C3", "A9">>
            [] Head(runes) = "U+FFFD" -> <<"EF", "BF", "BD">>
            [] OTHER -> <<Head(runes)>>) \o RunesToString(Tail(runes))

\* An Event: a decoded one carries in id its rank among the decoded events,
\* an EventResize the number of the window size it reports (history)
Event(type, val, id) == [type |-> type, val |-> val, id |-> id]
NoEvent == Event("none", "", 0)

\* escapeSequenceToKeyCode: the one sequence of the table the inputs use
KeyUpSequence == <<"ESC", "[", "A">>

IsDigit(byte) == byte \in {"0", "1", "2", "3", "4", "5", "6", "7", "8", "9"}

\* How many digits bytes has from position i on
RECURSIVE DigitRun(_, _)
DigitRun(bytes, i) ==
    IF i <= Len(bytes) /\ IsDigit(bytes[i]) THEN 1 + DigitRun(bytes, i + 1) ELSE 0

\* mouseEventRegex.FindStringSubmatch for ^ESC\[<([0-9]+);([0-9]+);([0-9]+)M:
\* [matched, all (mouseMatch[0]), buttons (mouseMatch[1])]
mouseEventRegex(bytes) ==
    LET NoMatch == [matched |-> FALSE, all |-> <<>>, buttons |-> <<>>]
        ByteIs(i, byte) == i <= Len(bytes) /\ bytes[i] = byte
        Closed(n1, end) ==
            IF ByteIs(end + 1, "M")
              THEN [matched |-> TRUE, all |-> SubSeq(bytes, 1, end + 1),
                    buttons |-> SubSeq(bytes, 4, 3 + n1)]
              ELSE NoMatch
        Third(n1, from, n3) ==
            IF n3 = 0 THEN NoMatch ELSE Closed(n1, from + n3 - 1)
        Second(n1, from, n2) ==
            IF n2 = 0 \/ ~ByteIs(from + n2, ";") THEN NoMatch
            ELSE Third(n1, from + n2 + 1, DigitRun(bytes, from + n2 + 1))
        First(n1) ==
            IF n1 = 0 \/ ~ByteIs(4 + n1, ";") THEN NoMatch
            ELSE Second(n1, 5 + n1, DigitRun(bytes, 5 + n1))
    IN IF HasPrefix(bytes, <<"ESC", "[", "<">>) THEN First(DigitRun(bytes, 4))
       ELSE NoMatch

\* The buttons number of a wheel up report
WheelUpButtons == <<"6", "4">>
WheelDownButtons == <<"6", "5">>

\* Result: [event, rest]; the event's id is filled in by the caller
consumeEncodedEvent(encodedEventSequences) ==
    LET FirstRune(runes) ==
            IF Len(runes) = 0 THEN [event |-> NoEvent, rest |-> <<>>]
            ELSE IF runes[1] = "ESC"
              THEN IF Len(runes) # 1 THEN [event |-> NoEvent, rest |-> <<>>]
                   ELSE [event |-> Event("key", "escape", 0), rest |-> RunesToString(Tail(runes))]
            ELSE IF runes[1] = "CR"
              THEN [event |-> Event("key", "enter", 0), rest |-> RunesToString(Tail(runes))]
            ELSE [event |-> Event("rune", runes[1], 0), rest |-> RunesToString(Tail(runes))]
        Mouse(mouseMatch) ==
            IF ~mouseMatch.matched THEN FirstRune(ToRunes(encodedEventSequences))
            ELSE IF mouseMatch.buttons = WheelUpButtons
              THEN [event |-> Event("mouse", "wheel up", 0),
                    rest |-> TrimPrefix(encodedEventSequences, mouseMatch.all)]
            ELSE IF mouseMatch.buttons = WheelDownButtons
              THEN [event |-> Event("mouse", "wheel down", 0),
                    rest |-> TrimPrefix(encodedEventSequences, mouseMatch.all)]
            ELSE [event |-> NoEvent, rest |-> <<>>]
    IN IF HasPrefix(encodedEventSequences, KeyUpSequence)
         THEN [event |-> Event("key", "up", 0),
               rest |-> TrimPrefix(encodedEventSequences, KeyUpSequence)]
         ELSE Mouse(mouseEventRegex(encodedEventSequences))

(***************************************************************************)
(* The events channel                                                      *)
(***************************************************************************)
\* A plain send (screen.events <- e) waits while the channel is full
sendWaits(events) == Len(events) >= EventsCap

selectSendWaitsWhenFull(events) == Len(events) >= EventsCap

\* A send that is a case of a select with a default case never waits
selectSendWaits(events) == FALSE

postReplacesNewest(events, event) ==
    IF Len(events) < EventsCap THEN [events |-> Append(events, event), sent |-> TRUE]
    ELSE [events |-> SubSeq(events, 1, Len(events) - 1) \o <<event>>, sent |-> TRUE]

\* select { case screen.events <- event: default: }: [events, sent]
post(events, event) ==
    IF Len(events) < EventsCap THEN [events |-> Append(events, event), sent |-> TRUE]
    ELSE [events |-> events, sent |-> FALSE]

(***************************************************************************)
(* mainLoop.  ml.pc is "read" (in ttyInReader.Read), "decode" (in the loop *)
(* over encodedKeyCodeSequences), "exit" (at the send of EventExit) or     *)
(* "done".  ml.decoded counts the events decoded so far, ml.dropped holds  *)
(* the ids of those the queue had no room for (history), ml.lastRead the   *)
(* bytes of the latest read made while the answer to the background color  *)
(* query was pending (history).                                            *)
(***************************************************************************)
MainLoopStarted ==
    [pc |-> "read", expectingTerminalBackgroundColor |-> TRUE, incompleteResponse |-> <<>>,
     encodedKeyCodeSequences |-> <<>>, reads |-> 0, decoded |-> 0, dropped |-> {},
     lastRead |-> <<>>]

\* The terminal's answer to the background color query
BgResponse(red, green, blue, suffix) ==
    BgPrefix \o red \o <<"/">> \o green \o <<"/">> \o blue \o suffix

SampleRed == <<"1", "2", "3", "4">>
SampleGreen == <<"5", "6", "7", "8">>
SampleBlue == <<"9", "a", "b", "c">>

\* What the terminal and the keyboard send in one read: a whole answer, the
\* start of one, keys, mouse reports, a byte that is not UTF-8, an answer
\* with short channels and one with no terminator
InputChunks ==
    {BgResponse(SampleRed, SampleGreen, SampleBlue, BgSuffix1),
     BgPrefix,
     <<"q">>,
     <<"ESC", "[", "A", "CR">>,
     <<"ESC", "[", "<", "6", "4", ";", "1", ";", "1", "M", "q">>,
     <<"ESC", "[", "<", "0", ";", "1", ";", "1", "M", "q">>,
     <<"BAD", "q">>,
     BgResponse(<<"1", "2">>, <<"5", "6">>, <<"9", "a">>, BgSuffix1),
     BgResponse(SampleRed, SampleGreen, SampleBlue, <<"q", "q">>)}

\* The rest of an answer the terminal is in the middle of
ResponseRest ==
    SampleRed \o <<"/">> \o SampleGreen \o <<"/">> \o SampleBlue \o BgSuffix2

\* Lines 867-871: the buffer goes to the decode loop unless it is not UTF-8
toDecodeLoop(m, buffer) ==
    IF ValidString(buffer)
      THEN [m EXCEPT !.encodedKeyCodeSequences = buffer, !.pc = "decode"]
      ELSE m

\* Lines 857-859
giveUp(m) == [m EXCEPT !.expectingTerminalBackgroundColor = FALSE, !.incompleteResponse = <<>>]

afterReadSkipsMalformed(m, scr, buffer) ==
    LET Answer(pending, response, parsed) ==
            IF parsed.valid /\ parsed.bg # NoColor
              THEN [ml |-> giveUp(pending),
                    screen |-> [scr EXCEPT !.terminalBackground = parsed.bg]]
            ELSE IF parsed.valid
              THEN [ml |-> [pending EXCEPT !.incompleteResponse = response], screen |-> scr]
            ELSE [ml |-> giveUp(pending), screen |-> scr]
    IN IF m.expectingTerminalBackgroundColor
         THEN Answer([m EXCEPT !.lastRead = buffer], m.incompleteResponse \o buffer,
                     parseTerminalBgColorResponse(m.incompleteResponse \o buffer))
         ELSE [ml |-> toDecodeLoop(m, buffer), screen |-> scr]

\* Lines 840-871 for one read that returned buffer: the new [ml, screen]
afterRead(m, scr, buffer) ==
    LET Answer(pending, response, parsed) ==
            IF parsed.valid /\ parsed.bg # NoColor
              THEN [ml |-> giveUp(pending),
                    screen |-> [scr EXCEPT !.terminalBackground = parsed.bg]]
            ELSE IF parsed.valid
              THEN [ml |-> [pending EXCEPT !.incompleteResponse = response], screen |-> scr]
            ELSE [ml |-> toDecodeLoop(giveUp(pending), buffer), screen |-> scr]
    IN IF m.expectingTerminalBackgroundColor
         THEN Answer([m EXCEPT !.lastRead = buffer], m.incompleteResponse \o buffer,
                     parseTerminalBgColorResponse(m.incompleteResponse \o buffer))
         ELSE [ml |-> toDecodeLoop(m, buffer), screen |-> scr]

\* What a read can return in state m
Readable(m) ==
    InputChunks \cup (IF m.incompleteResponse = BgPrefix THEN {ResponseRest} ELSE {})

Read ==
    /\ ml.pc = "read"
    /\ ml.reads < MaxReads
    /\ \E buffer \in Readable(ml) :
         /\ ml' = afterRead([ml EXCEPT !.reads = @ + 1], screen, buffer).ml
         /\ screen' = afterRead([ml EXCEPT !.reads = @ + 1], screen, buffer).screen
    /\ UNCHANGED <<call, lines, numCPU, find, p, last, term, consumer, rendered>>

ReadErrorReturns ==
    /\ ml.pc = "read"
    /\ ml' = [ml EXCEPT !.pc = "done"]
    /\ UNCHANGED <<call, lines, numCPU, find, p, last, screen, term, consumer, rendered>>

\* ttyInReader.Read returns an error
ReadError ==
    /\ ml.pc = "read"
    /\ ml' = [ml EXCEPT !.pc = "exit"]
    /\ UNCHANGED <<call, lines, numCPU, find, p, last, screen, term, consumer, rendered>>

\* One iteration of the loop at lines 873-891
afterDecode(m, step, sent) ==
    IF step.event = NoEvent
      THEN [m EXCEPT !.encodedKeyCodeSequences = <<>>, !.pc = "read"]
      ELSE [m EXCEPT !.encodedKeyCodeSequences = step.rest,
                     !.pc = IF step.rest = <<>> THEN "read" ELSE "decode",
                     !.decoded = @ + 1,
                     !.dropped = IF sent THEN @ ELSE @ \cup {m.decoded + 1}]

Decode ==
    /\ ml.pc = "decode"
    /\ LET Posted(step, posted) ==
               /\ ml' = afterDecode(ml, step, posted.sent)
               /\ screen' = [screen EXCEPT !.events = posted.events]
           Step(step) ==
               IF step.event = NoEvent
                 THEN ml' = afterDecode(ml, step, TRUE) /\ UNCHANGED screen
                 ELSE /\ ~selectSendWaits(screen.events)
                      /\ Posted(step, post(screen.events,
                                           [step.event EXCEPT !.id = ml.decoded + 1]))
       IN Step(consumeEncodedEvent(ml.encodedKeyCodeSequences))
    /\ UNCHANGED <<call, lines, numCPU, find, p, last, term, consumer, rendered>>

\* screen.events <- EventExit{} after a read error, then return
SendExit ==
    /\ ml.pc = "exit"
    /\ ~sendWaits(screen.events)
    /\ screen' = [screen EXCEPT !.events = Append(@, Event("exit", "", 0))]
    /\ ml' = [ml EXCEPT !.pc = "done"]
    /\ UNCHANGED <<call, lines, numCPU, find, p, last, term, consumer, rendered>>

(***************************************************************************)
(* Window size.  term.size numbers the sizes the window has had;           *)
(* term.signal is the pending SIGWINCH; term.pc is the notification        *)
(* goroutine: "wait", or in onWindowResized at "flag" or at "event";       *)
(* term.seen is the size number the goroutine woke up for (history).       *)
(***************************************************************************)
\* term.GetSize: every size the window has had differs from the others
GetSize(size) == [width |-> FirstWidth + size, height |-> FirstHeight + size]

ScreenStarted ==
    [widthAccessFromSizeOnly |-> 0, heightAccessFromSizeOnly |-> 0,
     sigwinch |-> TRUE, events |-> <<>>, terminalBackground |-> NoColor, cells |-> <<>>]

TermStarted == [size |-> 0, signal |-> FALSE, pc |-> "wait", seen |-> 0]

\* The user resizes the window
WindowResize ==
    /\ term.size < MaxResizes
    /\ term' = [term EXCEPT !.size = @ + 1, !.signal = TRUE]
    /\ UNCHANGED <<call, lines, numCPU, find, p, last, screen, ml, consumer, rendered>>

\* The notification goroutine receives the signal and calls onWindowResized
AwaitSignal ==
    /\ term.pc = "wait"
    /\ term.signal
    /\ term' = [term EXCEPT !.signal = FALSE, !.pc = "flag", !.seen = term.size]
    /\ UNCHANGED <<call, lines, numCPU, find, p, last, screen, ml, consumer, rendered>>

\* select { case screen.sigwinch <- 0: default: }
NotifySize ==
    /\ term.pc = "flag"
    /\ screen' = [screen EXCEPT !.sigwinch = TRUE]
    /\ term' = [term EXCEPT !.pc = "event"]
    /\ UNCHANGED <<call, lines, numCPU, find, p, last, ml, consumer, rendered>>

\* select { case screen.events <- EventResize{}: default: }
NotifyClient ==
    /\ term.pc = "event"
    /\ screen' = [screen EXCEPT
                    !.events = post(@, Event("resize", "", term.seen)).events]
    /\ term' = [term EXCEPT !.pc = "wait"]
    /\ UNCHANGED <<call, lines, numCPU, find, p, last, ml, consumer, rendered>>

\* StyledRune{Rune, Style}
StyledRune(rune, style) == [Rune |-> rune, Style |-> style]

\* The zero value of StyledRune, which make() fills a new row with
ZeroStyledRune == StyledRune("nul", "default")

\* newCells := make([][]StyledRune, height), each row make([]StyledRune, width)
newCells(size) == [row \in 1..size.height |-> [column \in 1..size.width |-> ZeroStyledRune]]

sizeKeepsCache(scr, size) == scr

sizeAlwaysReallocates(scr, size) ==
    [scr EXCEPT !.widthAccessFromSizeOnly = size.width,
                !.heightAccessFromSizeOnly = size.height,
                !.cells = newCells(size)]

\* Lines 995-1022 of Size(): the screen after the terminal was asked
sizeQueried(scr, size) ==
    IF /\ scr.widthAccessFromSizeOnly = size.width
       /\ scr.heightAccessFromSizeOnly = size.height
      THEN scr
      ELSE [scr EXCEPT !.widthAccessFromSizeOnly = size.width,
                       !.heightAccessFromSizeOnly = size.height,
                       !.cells = newCells(size)]

(***************************************************************************)
(* The client.  consumer.received is every event it took from              *)
(* screen.Events(), in order (history); consumer.pc is "idle" or, inside   *)
(* Size() after the flag was taken, "query"; consumer.resized is the size  *)
(* number of the latest EventResize received since the last Size() call    *)
(* began (Nil when none); consumer.size is what the last Size() call       *)
(* returned, consumer.after the value of resized when it began and         *)
(* consumer.queried whether that call asked the terminal.                  *)
(***************************************************************************)
ConsumerStarted ==
    [received |-> <<>>, pc |-> "idle", resized |-> Nil,
     size |-> [width |-> 0, height |-> 0], after |-> Nil, queried |-> FALSE]

Receive ==
    /\ consumer.pc = "idle"
    /\ screen.events # <<>>
    /\ screen' = [screen EXCEPT !.events = Tail(@)]
    /\ consumer' = [consumer EXCEPT
                      !.received = Append(@, Head(screen.events)),
                      !.resized = IF Head(screen.events).type = "resize"
                                    THEN Head(screen.events).id ELSE @]
    /\ UNCHANGED <<call, lines, numCPU, find, p, last, term, ml, rendered>>

\* Size() up to its select: the flag is taken, or the cached size returned
SizeSelect ==
    /\ consumer.pc = "idle"
    /\ IF screen.sigwinch
         THEN /\ screen' = [screen EXCEPT !.sigwinch = FALSE]
              /\ consumer' = [consumer EXCEPT !.pc = "query", !.after = consumer.resized,
                                              !.resized = Nil, !.queried = TRUE]
         ELSE /\ screen.widthAccessFromSizeOnly # 0
              /\ consumer' = [consumer EXCEPT
                                !.after = consumer.resized, !.resized = Nil,
                                !.queried = FALSE,
                                !.size = [width |-> screen.widthAccessFromSizeOnly,
                                          height |-> screen.heightAccessFromSizeOnly]]
              /\ UNCHANGED screen
    /\ UNCHANGED <<call, lines, numCPU, find, p, last, term, ml, rendered>>

\* Size() from term.GetSize on
SizeQuery ==
    /\ consumer.pc = "query"
    /\ screen' = sizeQueried(screen, GetSize(term.size))
    /\ consumer' = [consumer EXCEPT
                      !.pc = "idle",
                      !.size = [width |-> screen'.widthAccessFromSizeOnly,
                                height |-> screen'.heightAccessFromSizeOnly]]
    /\ UNCHANGED <<call, lines, numCPU, find, p, last, term, ml, rendered>>

(***************************************************************************)
(* The cell grid.  screen.cells[row + 1][column + 1] is the cell at        *)
(* (column, row).  Rune "W" is a double width rune, "sp" a space, "nul"    *)
(* the rune of a cell nothing was written to.  call is the client's call   *)
(* of SetCell, Clear or Size: call.pc is "idle", "query" (inside Size()    *)
(* after the flag was taken) or "returned"; call.before is the grid when   *)
(* the call began (history), call.calls the number of calls made (history) *)
(* and call.queried whether the call's Size() asked the terminal (history).*)
(***************************************************************************)
\* StyledRune.Width()
RuneWidth(styledRune) ==
    IF styledRune.Rune = "W" THEN 2 ELSE IF styledRune.Rune = "nul" THEN 0 ELSE 1

setCellUnclipped(scr, column, row, styledRune) ==
    IF column >= scr.widthAccessFromSizeOnly \/ row >= scr.heightAccessFromSizeOnly
      THEN scr
      ELSE [scr EXCEPT !.cells[row + 1][column + 1] = styledRune]

\* SetCell from the return of Size() on (lines 1135-1150): the screen
setCell(scr, column, row, styledRune) ==
    IF column >= scr.widthAccessFromSizeOnly \/ row >= scr.heightAccessFromSizeOnly
      THEN scr
    ELSE IF column + RuneWidth(styledRune) > scr.widthAccessFromSizeOnly
      THEN [scr EXCEPT !.cells[row + 1][column + 1] = StyledRune("sp", styledRune.Style)]
    ELSE [scr EXCEPT !.cells[row + 1][column + 1] = styledRune]

\* Clear from the return of Size() on (lines 1157-1161): the screen
clear(scr) ==
    [scr EXCEPT !.cells = [row \in 1..scr.heightAccessFromSizeOnly |->
                             [column \in 1..scr.widthAccessFromSizeOnly |->
                                StyledRune("sp", "default")]]]

\* What the client passes to SetCell
Columns == (0 - 1)..(FirstWidth + 1)
Rows == (0 - 1)..(FirstHeight + 1)
StyledRunes == {StyledRune("a", "default"), StyledRune("W", "bold")}

CellsCall(fn, pc, column, row, styledRune, ret, before, calls) ==
    [fn |-> fn, pc |-> pc, column |-> column, row |-> row, styledRune |-> styledRune,
     ret |-> ret, before |-> before, calls |-> calls, queried |-> FALSE]

CellsIdle == CellsCall("none", "idle", 0, 0, ZeroStyledRune, 0, <<>>, 0)

\* The rest of a call once Size() has returned: the screen
afterSize(scr, c) ==
    IF c.fn = "SetCell" THEN setCell(scr, c.column, c.row, c.styledRune)
    ELSE IF c.fn = "Clear" THEN clear(scr)
    ELSE scr

\* SetCell, Clear or Size up to the select in Size()
CallCells ==
    /\ call.pc \in {"idle", "returned"}
    /\ call.calls < MaxCalls
    /\ \E fn \in {"SetCell", "Clear", "Size"}, column \in Columns, row \in Rows,
          styledRune \in StyledRunes :
         LET c == CellsCall(fn, "returned",
                            IF fn = "SetCell" THEN column ELSE 0,
                            IF fn = "SetCell" THEN row ELSE 0,
                            IF fn = "SetCell" THEN styledRune ELSE ZeroStyledRune,
                            IF fn = "SetCell" THEN RuneWidth(styledRune) ELSE 0,
                            screen.cells, call.calls + 1)
         IN /\ fn # "SetCell" => (column = 0 /\ row = 0 /\ styledRune.Rune = "a")
            /\ IF fn = "SetCell" /\ (column < 0 \/ row < 0)
                 THEN call' = c /\ UNCHANGED screen
               ELSE IF screen.sigwinch
                 THEN /\ screen' = [screen EXCEPT !.sigwinch = FALSE]
                      /\ call' = [c EXCEPT !.pc = "query"]
               ELSE /\ screen.widthAccessFromSizeOnly # 0
                    /\ screen' = afterSize(screen, c)
                    /\ call' = c
    /\ UNCHANGED <<lines, numCPU, find, p, last, term, ml, consumer, rendered>>

\* The call from term.GetSize in Size() to its end
QueryCells ==
    /\ call.pc = "query"
    /\ screen' = afterSize(sizeQueried(screen, GetSize(term.size)), call)
    /\ call' = [call EXCEPT !.pc = "returned", !.queried = TRUE]
    /\ UNCHANGED <<lines, numCPU, find, p, last, term, ml, consumer, rendered>>

CellsInit ==
    /\ screen = ScreenStarted
    /\ term = TermStarted
    /\ ml = MainLoopStarted
    /\ consumer = ConsumerStarted
    /\ call = CellsIdle
    /\ lines = <<>>
    /\ numCPU = 1
    /\ find = FindIdle
    /\ p = PagerIdle
    /\ last = LastIdle
    /\ rendered = RenderedIdle

CellsNext ==
    \/ WindowResize
    \/ AwaitSignal
    \/ NotifySize
    \/ NotifyClient
    \/ CallCells
    \/ QueryCells

SpecCells == CellsInit /\ [][CellsNext]_vars

SetCellReturned == call.fn = "SetCell" /\ call.pc = "returned"

SizeReturned == call.fn = "Size" /\ call.pc = "returned"

\* The grid has exactly height rows of width cells
GridIs(cells, width, height) ==
    /\ Len(cells) = height
    /\ \A row \in 1..Len(cells) : Len(cells[row]) = width

SomeCellWritten(cells) ==
    \E row \in 1..Len(cells) : \E column \in 1..Len(cells[row]) :
        cells[row][column] # ZeroStyledRune

\* C35: a Size() call puts a new grid in place of the old only when it took
\* a pending resize notification and the window's size differs from the
\* cached one; otherwise the grid and its contents are as before the call.
\* When the call has returned, the grid has exactly height rows of width
\* cells for the width and height it returned, the cached ones.
C35_GridFollowsSize ==
    SizeReturned =>
        /\ screen.cells # call.before =>
              /\ call.queried
              /\ ~GridIs(call.before, screen.widthAccessFromSizeOnly,
                         screen.heightAccessFromSizeOnly)
              /\ screen.cells = newCells([width |-> screen.widthAccessFromSizeOnly,
                                          height |-> screen.heightAccessFromSizeOnly])
        /\ GridIs(screen.cells, screen.widthAccessFromSizeOnly,
                  screen.heightAccessFromSizeOnly)
        /\ screen.widthAccessFromSizeOnly > 0
        /\ screen.heightAccessFromSizeOnly > 0

\* C35 witness: cells had been written, a notification for the size the
\* screen already had was pending, and Size() asked the terminal and left
\* the grid and its contents in place
C35_SameSizeKeepsContents ==
    /\ SizeReturned
    /\ call.queried
    /\ SomeCellWritten(call.before)
    /\ screen.cells = call.before

\* C22: SetCell with a column or row outside the grid leaves every cell of
\* the grid as it was and returns the rune's width, also while a resize
\* notification is pending.  The grid is the one the screen had when the
\* call began.
C22_OutsideLeavesGrid ==
    (/\ SetCellReturned
     /\ call.before # <<>>
     /\ \/ call.column < 0
        \/ call.row < 0
        \/ call.column >= screen.widthAccessFromSizeOnly
        \/ call.row >= screen.heightAccessFromSizeOnly)
        => /\ screen.cells = call.before
           /\ call.ret = RuneWidth(call.styledRune)

\* C23: no cell of the grid holds a rune that reaches beyond the grid's
\* last column; a double width rune set in the last column is stored as a
\* space of the same style, and SetCell returns the width of the rune it
\* was given.
C23_NoRuneBeyondLastColumn ==
    /\ \A row \in 1..Len(screen.cells) : \A column \in 1..Len(screen.cells[row]) :
         (column - 1) + RuneWidth(screen.cells[row][column]) <= Len(screen.cells[row])
    /\ (/\ SetCellReturned
        /\ call.styledRune.Rune = "W"
        /\ call.row >= 0
        /\ call.row < screen.heightAccessFromSizeOnly
        /\ call.column = screen.widthAccessFromSizeOnly - 1)
           => /\ screen.cells[call.row + 1][call.column + 1]
                   = [Rune |-> "sp", Style |-> call.styledRune.Style]
              /\ call.ret = 2

\* A double width rune was set in the last column of a grid that had been
\* resized and cleared
C23_WideRuneInLastColumn ==
    /\ SetCellReturned
    /\ call.styledRune = [Rune |-> "W", Style |-> "bold"]
    /\ screen.widthAccessFromSizeOnly > FirstWidth
    /\ call.column = screen.widthAccessFromSizeOnly - 1
    /\ call.row = 0
    /\ call.before # <<>>
    /\ call.before[1][1].Rune = "sp"

(***************************************************************************)
(* SpecScreen: the main loop, the resize notification and a client that    *)
(* takes events at any pace.  SpecResize: the resize notification and a    *)
(* client that takes events and calls Size() at any pace.                  *)
(***************************************************************************)
ScreenInit ==
    /\ screen = ScreenStarted
    /\ term = TermStarted
    /\ ml = MainLoopStarted
    /\ consumer = ConsumerStarted
    /\ lines = <<>>
    /\ numCPU = 1
    /\ find = FindIdle
    /\ p = PagerIdle
    /\ last = LastIdle
    /\ rendered = RenderedIdle
    /\ call = CallIdle

ScreenNext ==
    \/ Read
    \/ ReadError
    \/ Decode
    \/ SendExit
    \/ WindowResize
    \/ AwaitSignal
    \/ NotifySize
    \/ NotifyClient
    \/ Receive

SpecScreen == ScreenInit /\ [][ScreenNext]_vars

ResizeNext ==
    \/ WindowResize
    \/ AwaitSignal
    \/ NotifySize
    \/ NotifyClient
    \/ Receive
    \/ SizeSelect
    \/ SizeQuery

SpecResize == ScreenInit /\ [][ResizeNext]_vars

\* C18: when a read while the answer to the background color query is
\* pending shows the answer to be malformed, the background color stays
\* unknown, the main loop goes on, it never expects the answer again, and
\* the bytes of that read go to the decode loop like any other input.
C18_MalformedResponseAbandoned ==
    /\ [][(/\ ml.pc = "read"
           /\ ml.expectingTerminalBackgroundColor
           /\ ml'.reads = ml.reads + 1
           /\ ~parseTerminalBgColorResponse(ml.incompleteResponse \o ml'.lastRead).valid)
              => /\ screen'.terminalBackground = NoColor
                 /\ ~ml'.expectingTerminalBackgroundColor
                 /\ IF ValidString(ml'.lastRead)
                      THEN /\ ml'.pc = "decode"
                           /\ ml'.encodedKeyCodeSequences = ml'.lastRead
                      ELSE ml'.pc = "read"]_vars
    /\ [][~ml.expectingTerminalBackgroundColor
              => /\ ~ml'.expectingTerminalBackgroundColor
                 /\ screen'.terminalBackground = screen.terminalBackground]_vars

\* A key arrived where the answer was expected: the query was given up, the
\* key was decoded and received, the background color is unknown
C18_KeyAfterStartDecoded ==
    /\ ~ml.expectingTerminalBackgroundColor
    /\ screen.terminalBackground = NoColor
    /\ ml.lastRead = <<"q">>
    /\ \E i \in 1..Len(consumer.received) :
         consumer.received[i].type = "rune" /\ consumer.received[i].val = "q"

\* EventExit is in the queue or was taken from it
ExitPosted ==
    \/ \E i \in 1..Len(screen.events) : screen.events[i].type = "exit"
    \/ \E i \in 1..Len(consumer.received) : consumer.received[i].type = "exit"

\* C21: after a failed read the main loop reads and decodes nothing more,
\* it ends only by returning, and when it has returned EventExit was posted
\* to the queue; this is so with the background color answer pending or not.
C21_ReadErrorPostsExit ==
    /\ [](ml.pc = "done" => ExitPosted)
    /\ [](ExitPosted => ml.pc = "done")
    /\ [][ml.pc \in {"exit", "done"}
            => /\ ml'.pc \in {"exit", "done"}
               /\ ml'.reads = ml.reads
               /\ ml'.decoded = ml.decoded
               /\ ml'.expectingTerminalBackgroundColor
                    = ml.expectingTerminalBackgroundColor]_vars
    /\ [][(ml.pc = "read" /\ ml'.pc \notin {"read", "decode"}) => ml'.pc = "exit"]_vars

\* The read failed while the answer was pending; the client received
\* EventExit
C21_ExitWhilePending ==
    /\ ml.pc = "done"
    /\ ml.expectingTerminalBackgroundColor
    /\ ml.incompleteResponse = BgPrefix
    /\ consumer.received # <<>>
    /\ consumer.received[Len(consumer.received)].type = "exit"

(***************************************************************************)
(* SpecClose: the main loop, a client that takes events at any pace or     *)
(* stops taking them, and one call of Close() at any moment.  call.pc is   *)
(* the position of Close(): "send" (at screen.events <- EventExit{}),      *)
(* "interrupt" (at ttyInReader.Interrupt()), "restore" (at the terminal    *)
(* modes) or "returned".                                                   *)
(***************************************************************************)
CloseInit ==
    /\ screen = ScreenStarted
    /\ term = TermStarted
    /\ ml = MainLoopStarted
    /\ consumer = ConsumerStarted
    /\ lines = <<>>
    /\ numCPU = 1
    /\ find = FindIdle
    /\ p = PagerIdle
    /\ last = LastIdle
    /\ rendered = RenderedIdle
    /\ call = [fn |-> "none", pc |-> "idle"]

CloseUnchanged == UNCHANGED <<lines, numCPU, find, p, last, term, rendered>>

\* ttyInReader.Interrupt() was called
Interrupted == call.pc \in {"restore", "returned"}

CallClose ==
    /\ call.fn = "none"
    /\ call' = [fn |-> "Close", pc |-> "send"]
    /\ UNCHANGED <<screen, ml, consumer>>
    /\ CloseUnchanged

\* screen.events <- EventExit{}
CloseSend ==
    /\ call.pc = "send"
    /\ ~sendWaits(screen.events)
    /\ screen' = [screen EXCEPT !.events = Append(@, Event("exit", "", 0))]
    /\ call' = [call EXCEPT !.pc = "interrupt"]
    /\ UNCHANGED <<ml, consumer>>
    /\ CloseUnchanged

\* screen.ttyInReader.Interrupt()
CloseInterrupt ==
    /\ call.pc = "interrupt"
    /\ call' = [call EXCEPT !.pc = "restore"]
    /\ UNCHANGED <<screen, ml, consumer>>
    /\ CloseUnchanged

\* hideCursor, enableMouseTracking, setAlternateScreenMode, restoreTtyInTtyOut
CloseRestore ==
    /\ call.pc = "restore"
    /\ call' = [call EXCEPT !.pc = "returned"]
    /\ UNCHANGED <<screen, ml, consumer>>
    /\ CloseUnchanged

\* A read of the main loop before the interrupt
ReadBeforeInterrupt == ~Interrupted /\ Read

\* The read of the main loop that the interrupt ends
InterruptedRead ==
    /\ Interrupted
    /\ ml.pc = "read"
    /\ ml' = [ml EXCEPT !.pc = "exit"]
    /\ UNCHANGED <<screen, call, consumer>>
    /\ CloseUnchanged

CloseNext ==
    \/ ReadBeforeInterrupt
    \/ InterruptedRead
    \/ Decode
    \/ SendExit
    \/ Receive
    \/ CallClose
    \/ CloseSend
    \/ CloseInterrupt
    \/ CloseRestore

\* Close() and the main loop go on whenever they can (the decode loop never
\* waits: Decode is enabled whenever ml.pc = "decode"); the client may stop
\* taking events
SpecClose ==
    /\ CloseInit
    /\ [][CloseNext]_vars
    /\ WF_vars(CloseSend)
    /\ WF_vars(CloseInterrupt)
    /\ WF_vars(CloseRestore)
    /\ WF_vars(InterruptedRead)
    /\ <>[](ml.pc = "decode") => []<><<Decode>>_vars
    /\ WF_vars(SendExit)

\* C38: a call of Close() returns, whatever the queue holds and whether or
\* not the client still takes events, and once the reader is interrupted
\* the main loop returns.
C38_CloseCompletes ==
    /\ (call.fn = "Close") ~> (call.pc = "returned")
    /\ Interrupted ~> (ml.pc = "done")

(***************************************************************************)
(* SpecBackground: NewScreenWithMouseModeAndColorCount() from the start of *)
(* the main loop goroutine on, the main loop handling the answer to the    *)
(* background color query, and a client calling TerminalBackground() once  *)
(* the constructor has returned.  Every Lock(), every access to the two    *)
(* fields and every Unlock() is a step of its own.                         *)
(***************************************************************************)
\* terminalBackgroundLock.Lock() returns only when nobody holds the lock
canLockAlways(scr) == TRUE

canLock(scr) == scr.terminalBackgroundLock = "none"

Lock(scr, who) == [scr EXCEPT !.terminalBackgroundLock = who]

Unlock(scr) == [scr EXCEPT !.terminalBackgroundLock = "none"]

\* The three fields of UnixScreen, after the struct literal of the constructor
BackgroundScreen ==
    [terminalBackground |-> NoColor,
     terminalBackgroundQuery |-> "nil",
     terminalBackgroundLock |-> "none"]

BackgroundInit ==
    /\ screen = BackgroundScreen
    /\ term = [query |-> "none", answer |-> "none", keys |-> 0]
    /\ ml = [pc |-> "read", expectingTerminalBackgroundColor |-> TRUE]
    /\ call = [pc |-> "println", calls |-> 0, polls |-> 0, background |-> NoColor]
    /\ consumer = ConsumerIdle
    /\ lines = <<>>
    /\ numCPU = 1
    /\ find = FindIdle
    /\ p = PagerIdle
    /\ last = LastIdle
    /\ rendered = RenderedIdle

BackgroundUnchanged == UNCHANGED <<lines, numCPU, find, p, last, consumer, rendered>>

\* The terminal answers the query it was sent, or never does
TerminalAnswers ==
    /\ term.query = "printed"
    /\ term.answer = "none"
    /\ term' = [term EXCEPT !.answer = "sent"]
    /\ UNCHANGED <<screen, ml, call>>
    /\ BackgroundUnchanged

\* mainLoop: a read brings the whole answer
MainLoopReadsAnswer ==
    /\ ml.pc = "read"
    /\ term.answer = "sent"
    /\ term' = [term EXCEPT !.answer = "read"]
    /\ ml' = IF ml.expectingTerminalBackgroundColor
               THEN [ml EXCEPT !.pc = "lock"]
               ELSE ml
    /\ UNCHANGED <<screen, call>>
    /\ BackgroundUnchanged

\* mainLoop: a read brings a key while the answer is expected
MainLoopReadsKey ==
    /\ ml.pc = "read"
    /\ ml.expectingTerminalBackgroundColor
    /\ term.keys < MaxKeys
    /\ term' = [term EXCEPT !.keys = @ + 1]
    /\ ml' = [ml EXCEPT !.expectingTerminalBackgroundColor = FALSE]
    /\ UNCHANGED <<screen, call>>
    /\ BackgroundUnchanged

MainLoopLock ==
    /\ ml.pc = "lock"
    /\ canLock(screen)
    /\ screen' = Lock(screen, "mainLoop")
    /\ ml' = [ml EXCEPT !.pc = "write"]
    /\ UNCHANGED <<term, call>>
    /\ BackgroundUnchanged

\* screen.terminalBackground = bg
MainLoopWrite ==
    /\ ml.pc = "write"
    /\ screen' = [screen EXCEPT !.terminalBackground = NewColor24Bit(0, 0, 0)]
    /\ ml' = [ml EXCEPT !.pc = "log"]
    /\ UNCHANGED <<term, call>>
    /\ BackgroundUnchanged

\* time.Since(*screen.terminalBackgroundQuery): a nil pointer ends the main
\* loop with the lock held
MainLoopLog ==
    /\ ml.pc = "log"
    /\ ml' = [ml EXCEPT !.pc = IF screen.terminalBackgroundQuery = "nil"
                                 THEN "panicked"
                                 ELSE "unlock"]
    /\ UNCHANGED <<screen, term, call>>
    /\ BackgroundUnchanged

MainLoopUnlock ==
    /\ ml.pc = "unlock"
    /\ screen' = Unlock(screen)
    /\ ml' = [ml EXCEPT !.pc = "read", !.expectingTerminalBackgroundColor = FALSE]
    /\ UNCHANGED <<term, call>>
    /\ BackgroundUnchanged

\* fmt.Println("\x1b]11;?\x07")
ConstructorQuery ==
    /\ call.pc = "println"
    /\ term' = [term EXCEPT !.query = "printed"]
    /\ call' = [call EXCEPT !.pc = "ctorLock"]
    /\ UNCHANGED <<screen, ml>>
    /\ BackgroundUnchanged

\* Every Lock() of the constructor and of TerminalBackground()
ClientLock ==
    /\ call.pc \in {"ctorLock", "firstLock", "startLock", "pollLock", "lastLock"}
    /\ canLock(screen)
    /\ screen' = Lock(screen, "client")
    /\ call' = [call EXCEPT !.pc = CASE call.pc = "ctorLock" -> "ctorSet"
                                     [] call.pc = "firstLock" -> "firstCheck"
                                     [] call.pc = "startLock" -> "startRead"
                                     [] call.pc = "pollLock" -> "pollCheck"
                                     [] call.pc = "lastLock" -> "lastRead"]
    /\ UNCHANGED <<term, ml>>
    /\ BackgroundUnchanged

\* screen.terminalBackgroundQuery = &now
ConstructorSet ==
    /\ call.pc = "ctorSet"
    /\ screen' = [screen EXCEPT !.terminalBackgroundQuery = "set"]
    /\ call' = [call EXCEPT !.pc = "ctorReturn"]
    /\ UNCHANGED <<term, ml>>
    /\ BackgroundUnchanged

\* The deferred Unlock() of the constructor
ConstructorReturn ==
    /\ call.pc = "ctorReturn"
    /\ screen' = Unlock(screen)
    /\ call' = [call EXCEPT !.pc = "idle"]
    /\ UNCHANGED <<term, ml>>
    /\ BackgroundUnchanged

CallTerminalBackground ==
    /\ call.pc = "idle"
    /\ call.calls < MaxBgCalls
    /\ call' = [call EXCEPT !.pc = "firstLock", !.calls = @ + 1, !.polls = 0,
                            !.background = NoColor]
    /\ UNCHANGED <<screen, term, ml>>
    /\ BackgroundUnchanged

\* The first locked section of TerminalBackground(): the color is known, or
\* the query is older than maxWait
FirstCheck ==
    /\ call.pc = "firstCheck"
    /\ \E timedOut \in BOOLEAN :
         /\ screen.terminalBackground # NoColor => ~timedOut
         /\ screen.terminalBackground = NoColor
              => (timedOut => screen.terminalBackgroundQuery = "set")
         /\ call' = IF screen.terminalBackground # NoColor \/ timedOut
                      THEN [call EXCEPT !.pc = "unlockReturn",
                                        !.background = screen.terminalBackground]
                      ELSE [call EXCEPT !.pc = "firstUnlock"]
    /\ UNCHANGED <<screen, term, ml>>
    /\ BackgroundUnchanged

\* start := screen.terminalBackgroundQuery
StartRead ==
    /\ call.pc = "startRead"
    /\ call' = [call EXCEPT !.pc = "startUnlock"]
    /\ UNCHANGED <<screen, term, ml>>
    /\ BackgroundUnchanged

\* for time.Since(*start) < maxWait: start is the local copy
Loop ==
    /\ call.pc = "loop"
    /\ \/ /\ call.polls < MaxPolls
          /\ call' = [call EXCEPT !.pc = "pollLock", !.polls = @ + 1]
       \/ call' = [call EXCEPT !.pc = "lastLock"]
    /\ UNCHANGED <<screen, term, ml>>
    /\ BackgroundUnchanged

\* The locked section inside the loop
PollCheck ==
    /\ call.pc = "pollCheck"
    /\ call' = IF screen.terminalBackground # NoColor
                 THEN [call EXCEPT !.pc = "unlockReturn",
                                   !.background = screen.terminalBackground]
                 ELSE [call EXCEPT !.pc = "pollUnlock"]
    /\ UNCHANGED <<screen, term, ml>>
    /\ BackgroundUnchanged

\* return screen.terminalBackground, after the loop
LastRead ==
    /\ call.pc = "lastRead"
    /\ call' = [call EXCEPT !.pc = "unlockReturn",
                            !.background = screen.terminalBackground]
    /\ UNCHANGED <<screen, term, ml>>
    /\ BackgroundUnchanged

\* Every Unlock() of TerminalBackground(); after the one in the loop comes
\* time.Sleep()
ClientUnlock ==
    /\ call.pc \in {"firstUnlock", "startUnlock", "pollUnlock", "unlockReturn"}
    /\ screen' = Unlock(screen)
    /\ call' = [call EXCEPT !.pc = CASE call.pc = "firstUnlock" -> "startLock"
                                     [] call.pc = "startUnlock" -> "loop"
                                     [] call.pc = "pollUnlock" -> "loop"
                                     [] call.pc = "unlockReturn" -> "idle"]
    /\ UNCHANGED <<term, ml>>
    /\ BackgroundUnchanged

BackgroundNext ==
    \/ TerminalAnswers
    \/ MainLoopReadsAnswer
    \/ MainLoopReadsKey
    \/ MainLoopLock
    \/ MainLoopWrite
    \/ MainLoopLog
    \/ MainLoopUnlock
    \/ ConstructorQuery
    \/ ClientLock
    \/ ConstructorSet
    \/ ConstructorReturn
    \/ CallTerminalBackground
    \/ FirstCheck
    \/ StartRead
    \/ Loop
    \/ PollCheck
    \/ LastRead
    \/ ClientUnlock

SpecBackground == BackgroundInit /\ [][BackgroundNext]_vars

\* The main loop is at a line that reads or writes one of the two fields
MainLoopAccesses == ml.pc \in {"write", "log"}

\* The constructor or TerminalBackground() is at such a line
ClientAccesses ==
    call.pc \in {"ctorSet", "firstCheck", "startRead", "pollCheck", "lastRead"}

\* C36: whenever the main loop, the constructor or TerminalBackground() is
\* at a line that reads or writes terminalBackground or
\* terminalBackgroundQuery, that thread holds terminalBackgroundLock, and
\* the two threads are never at such lines at the same time.
C36_FieldsAccessedUnderLock ==
    /\ MainLoopAccesses => screen.terminalBackgroundLock = "mainLoop"
    /\ ClientAccesses => screen.terminalBackgroundLock = "client"
    /\ ~(MainLoopAccesses /\ ClientAccesses)

\* The main loop writes the color while TerminalBackground() waits for the
\* lock inside its loop
C36_ClientWaitsForMainLoop ==
    /\ ml.pc = "write"
    /\ call.pc = "pollLock"
    /\ screen.terminalBackgroundLock = "mainLoop"

\* C37: the main loop reads the value terminalBackgroundQuery points to
\* only when the constructor has set the pointer.
C37_TimestampSetBeforeUse ==
    ml.pc = "log" => screen.terminalBackgroundQuery = "set"

(***************************************************************************)
(* SpecParse: one call of parseTerminalBgColorResponse on an answer of the *)
(* terminal, on a start of one, or on bytes that are no answer.            *)
(***************************************************************************)
\* Channel values as the terminal writes them, with the numbers they denote
ChannelSamples ==
    {[hex |-> <<"0", "0", "0", "0">>, value |-> 0],
     [hex |-> <<"0", "0", "f", "f">>, value |-> 255],
     [hex |-> <<"0", "1", "0", "0">>, value |-> 256],
     [hex |-> <<"1", "2", "3", "4">>, value |-> 4660],
     [hex |-> <<"5", "6", "7", "8">>, value |-> 22136],
     [hex |-> <<"9", "a", "b", "c">>, value |-> 39612],
     [hex |-> <<"9", "A", "B", "C">>, value |-> 39612],
     [hex |-> <<"f", "f", "f", "f">>, value |-> 65535]}

BgSuffixes == {<<"BEL">>, <<"ESC", "\\">>}

\* ESC ] 11 ; rgb : RRRR / GGGG / BBBB followed by BEL or by ESC \
WellFormedResponse(red, green, blue, suffix) ==
    <<"ESC", "]", "1", "1", ";", "r", "g", "b", ":">>
        \o red.hex \o <<"/">> \o green.hex \o <<"/">> \o blue.hex \o suffix

WellFormedResponses ==
    {WellFormedResponse(red, green, blue, suffix) :
        red \in ChannelSamples, green \in ChannelSamples, blue \in ChannelSamples,
        suffix \in BgSuffixes}

StrictPrefixes(bytes) == {SubSeq(bytes, 1, n) : n \in 1..(Len(bytes) - 1)}

\* Bytes that are no answer and no start of one
MalformedResponses ==
    {<<"q">>,
     <<"ESC", "[", "A">>,
     <<"ESC", "]", "1", "0", ";", "r", "g", "b", ":">>,
     BgResponse(<<"1", "2">>, <<"5", "6">>, <<"9", "a">>, BgSuffix1),
     BgResponse(<<"1", "2", "g", "4">>, SampleGreen, SampleBlue, BgSuffix1),
     BgResponse(SampleRed, SampleGreen, SampleBlue, <<"q", "q">>),
     BgResponse(SampleRed, SampleGreen, SampleBlue, <<"BEL", "q">>)}

ParseInputs ==
    WellFormedResponses
        \cup UNION {StrictPrefixes(response) : response \in WellFormedResponses}
        \cup MalformedResponses

CallOf(fn, input) ==
    [fn |-> fn, pc |-> "called", input |-> input,
     parsed |-> [bg |-> NoColor, valid |-> FALSE],
     consumed |-> [event |-> NoEvent, rest |-> <<>>]]

ParseInit ==
    /\ call \in {CallOf("parseTerminalBgColorResponse", input) : input \in ParseInputs}
    /\ lines = <<>>
    /\ numCPU = 1
    /\ find = FindIdle
    /\ p = PagerIdle
    /\ last = LastIdle
    /\ screen = ScreenStarted
    /\ term = TermStarted
    /\ ml = MainLoopStarted
    /\ consumer = ConsumerStarted
    /\ rendered = RenderedIdle

Parse ==
    /\ call.fn = "parseTerminalBgColorResponse"
    /\ call.pc = "called"
    /\ call' = [call EXCEPT !.pc = "returned",
                            !.parsed = parseTerminalBgColorResponse(call.input)]
    /\ UNCHANGED <<lines, numCPU, find, p, last, screen, term, ml, consumer, rendered>>

ParseNext == Parse

SpecParse == ParseInit /\ [][ParseNext]_vars

ParseReturned ==
    call.fn = "parseTerminalBgColorResponse" /\ call.pc = "returned"

\* C16: parseTerminalBgColorResponse reports every non-empty strict prefix
\* of a well-formed answer as incomplete but valid (nil, true), never as
\* invalid.
C16_StrictPrefixIsIncompleteValid ==
    (/\ ParseReturned
     /\ \E response \in WellFormedResponses : call.input \in StrictPrefixes(response))
        => call.parsed = [bg |-> NoColor, valid |-> TRUE]

\* C17: a complete answer ending in BEL or in ESC \ parses as valid, to the
\* color whose 8 bit channels are the 16 bit channels divided by 256;
\* 1234/5678/9abc gives (0x12, 0x56, 0x9a).
C17_CompleteResponseParsesToHighBytes ==
    ParseReturned =>
        /\ \A red \in ChannelSamples, green \in ChannelSamples, blue \in ChannelSamples :
             \A suffix \in BgSuffixes :
               call.input = WellFormedResponse(red, green, blue, suffix) =>
                 call.parsed = [bg |-> [red |-> red.value \div 256,
                                        green |-> green.value \div 256,
                                        blue |-> blue.value \div 256],
                                valid |-> TRUE]
        /\ \A suffix \in BgSuffixes :
             call.input = <<"ESC", "]", "1", "1", ";", "r", "g", "b", ":",
                            "1", "2", "3", "4", "/", "5", "6", "7", "8", "/",
                            "9", "a", "b", "c">> \o suffix
                 => call.parsed = [bg |-> [red |-> 18, green |-> 86, blue |-> 154],
                                   valid |-> TRUE]

\* An answer ending in ESC \ was parsed to a color with a channel above 0
\* whose 16 bit value is no multiple of 256
C17_ParsedStAnswer ==
    /\ ParseReturned
    /\ HasSuffix(call.input, <<"ESC", "\\">>)
    /\ call.parsed.valid
    /\ call.parsed.bg = [red |-> 154, green |-> 255, blue |-> 0]

(***************************************************************************)
(* SpecConsume: one call of consumeEncodedEvent on what the terminal can   *)
(* send: a key sequence, a mouse report, a rune or a byte that is no       *)
(* UTF-8, followed by more input.                                          *)
(***************************************************************************)
\* ESC [ < buttons ; column ; row M
MouseReport(buttons, column, row) ==
    <<"ESC", "[", "<">> \o buttons \o <<";">> \o column \o <<";">> \o row \o <<"M">>

WheelReports ==
    {MouseReport(buttons, position[1], position[2]) :
        buttons \in {<<"6", "4">>, <<"6", "5">>},
        position \in {<<<<"1", "0">>, <<"5">>>>, <<<<"1", "2", "7">>, <<"4", "1">>>>}}

ConsumeHeads ==
    WheelReports
        \cup {MouseReport(<<"0">>, <<"1">>, <<"1">>),
              <<"ESC", "[", "A">>,
              <<"ESC">>,
              <<"CR">>,
              <<"q">>,
              <<"[">>,
              <<"C3", "A9">>,
              <<"EF", "BF", "BD">>,
              <<"BAD">>}

ConsumeTails ==
    {<<>>,
     <<"q">>,
     <<"CR">>,
     <<"ESC">>,
     <<"M">>,
     <<"5", "M">>,
     <<"C3", "A9", "q">>,
     <<"ESC", "[", "A">>,
     MouseReport(<<"6", "5">>, <<"1", "0">>, <<"5">>),
     <<"q", "BAD">>}

ConsumeInputs == {head \o tail : head \in ConsumeHeads, tail \in ConsumeTails}

ConsumeInit ==
    /\ call \in {CallOf("consumeEncodedEvent", input) : input \in ConsumeInputs}
    /\ lines = <<>>
    /\ numCPU = 1
    /\ find = FindIdle
    /\ p = PagerIdle
    /\ last = LastIdle
    /\ screen = ScreenStarted
    /\ term = TermStarted
    /\ ml = MainLoopStarted
    /\ consumer = ConsumerStarted
    /\ rendered = RenderedIdle

Consume ==
    /\ call.fn = "consumeEncodedEvent"
    /\ call.pc = "called"
    /\ call' = [call EXCEPT !.pc = "returned",
                            !.consumed = consumeEncodedEvent(call.input)]
    /\ UNCHANGED <<lines, numCPU, find, p, last, screen, term, ml, consumer, rendered>>

ConsumeNext == Consume

SpecConsume == ConsumeInit /\ [][ConsumeNext]_vars

ConsumeReturned == call.fn = "consumeEncodedEvent" /\ call.pc = "returned"

\* C19: on an input that starts with ESC[<65;10;5M, consumeEncodedEvent
\* returns a wheel up mouse event and the input without exactly that report.
C19_Report65IsWheelUp ==
    (/\ ConsumeReturned
     /\ Len(call.input) >= 11
     /\ SubSeq(call.input, 1, 11)
          = <<"ESC", "[", "<", "6", "5", ";", "1", "0", ";", "5", "M">>)
        => /\ call.consumed.event.type = "mouse"
           /\ call.consumed.event.val = "wheel up"
           /\ call.consumed.rest = SubSeq(call.input, 12, Len(call.input))

\* C20: consumeEncodedEvent decodes a lone ESC to the Escape key code with
\* nothing left, a leading carriage return to the Enter key code and any
\* other leading rune to an event of that rune; each takes exactly the
\* bytes of one rune from the input.  The input is valid UTF-8.
C20_OneRuneConsumed ==
    LET Consumed(type, val, size) ==
            /\ call.consumed.event.type = type
            /\ call.consumed.event.val = val
            /\ call.consumed.rest = SubSeq(call.input, size + 1, Len(call.input))
    IN (ConsumeReturned /\ ValidString(call.input)) =>
         /\ call.input = <<"ESC">> => Consumed("key", "escape", 1)
         /\ call.input[1] = "CR" => Consumed("key", "enter", 1)
         /\ call.input[1] \in {"q", "["} => Consumed("rune", call.input[1], 1)
         /\ call.input[1] = "C3" => Consumed("rune", "e-acute", 2)
         /\ call.input[1] = "EF" => Consumed("rune", "U+FFFD", 3)

\* A lone ESC was decoded to the Escape key code
C20_LoneEscapeDecoded ==
    /\ ConsumeReturned
    /\ call.input = <<"ESC">>
    /\ call.consumed = [event |-> [type |-> "key", val |-> "escape", id |-> 0],
                        rest |-> <<>>]

IsDecoded(event) == event.type \in {"rune", "key", "mouse"}

\* The main loop is at a send on the events channel that cannot proceed
DecodedEventWaits ==
    /\ ml.pc = "decode"
    /\ consumeEncodedEvent(ml.encodedKeyCodeSequences).event # NoEvent
    /\ selectSendWaits(screen.events)

ExitEventWaits == ml.pc = "exit" /\ sendWaits(screen.events)

DecodedIds(events) == {events[i].id : i \in {j \in 1..Len(events) : IsDecoded(events[j])}}

InDecodeOrder(events) ==
    \A i, j \in 1..Len(events) :
        (i < j /\ IsDecoded(events[i]) /\ IsDecoded(events[j])) => events[i].id < events[j].id

\* C8: the decoded events the client has received, followed by those still
\* queued, are in the order they were decoded, and every decoded event is
\* received, queued or was dropped on a full queue, exactly one of the three
C8_ReceivedInDecodeOrder ==
    /\ InDecodeOrder(consumer.received \o screen.events)
    /\ \A k \in 1..ml.decoded :
         /\ k \in DecodedIds(consumer.received) \cup DecodedIds(screen.events) \cup ml.dropped
         /\ ~(k \in DecodedIds(consumer.received) /\ k \in DecodedIds(screen.events))
         /\ ~(k \in ml.dropped /\ k \in DecodedIds(consumer.received) \cup DecodedIds(screen.events))
    /\ DecodedIds(consumer.received) \cup DecodedIds(screen.events) \cup ml.dropped
         \subseteq 1..ml.decoded

\* C8 witness: the client received an event decoded before a dropped one
\* and an event decoded after it
C8_ReceivedAroundDrop ==
    \E d \in ml.dropped :
        /\ \E k \in DecodedIds(consumer.received) : k < d
        /\ \E k \in DecodedIds(consumer.received) : k > d

\* C9 as stated: a Size() call that follows the receipt of an EventResize
\* asks the terminal again and returns the window size that event was sent
\* for, or a later one
C9_SizeAfterResizeRequeries ==
    (consumer.pc = "idle" /\ consumer.after # Nil) =>
        /\ consumer.queried
        /\ \E size \in consumer.after..term.size : consumer.size = GetSize(size)

\* C9 amended: a Size() call that follows the receipt of an EventResize
\* returns the window size that event was sent for, or a later one, whether
\* it asked the terminal or an earlier call had already done so
C9_SizeAfterResizeIsNew ==
    (consumer.pc = "idle" /\ consumer.after # Nil) =>
        \E size \in consumer.after..term.size : consumer.size = GetSize(size)

\* C9 witness: the window was resized several times before the client took
\* the EventResize of the first, and its next Size() call asked the terminal
\* and returned the latest size
C9_SeveralResizesOneFlag ==
    /\ consumer.pc = "idle"
    /\ consumer.queried
    /\ consumer.after # Nil
    /\ term.size >= 2
    /\ consumer.after < term.size
    /\ consumer.size = GetSize(term.size)

(***************************************************************************)
(* SpecTable: the loop of consumeEncodedEvent over escapeSequenceToKeyCode *)
(* on every table made of KeyCodeSequences and on inputs that start with   *)
(* one or more of its sequences.  The table is a Go map: range visits its  *)
(* entries in an order that differs from run to run.                       *)
(***************************************************************************)
KeyCodeSequences ==
    {<<"ESC", "[", "A">>,
     <<"ESC", "[", "1">>,
     <<"ESC", "[", "1", "~">>,
     <<"ESC", "O">>,
     <<"ESC", "O", "A">>}

KeyCodeTables == SUBSET KeyCodeSequences \ {{}}

TableInputs ==
    {<<"ESC", "[", "A">>,
     <<"ESC", "[", "1", "~", "q">>,
     <<"ESC", "[", "1", "q">>,
     <<"ESC", "O", "A">>,
     <<"q">>}

\* The entries the loop can return at: whichever prefix of the input range
\* yields first
keyCodePrefixes(table, encodedEventSequences) ==
    {singleKeyCodeSequence \in table :
       HasPrefix(encodedEventSequences, singleKeyCodeSequence)}

TableInit ==
    /\ call \in {[fn |-> "consumeEncodedEvent", pc |-> "called", table |-> table,
                  input |-> input, matched |-> FALSE, consumed |-> <<>>, rest |-> <<>>] :
                   table \in KeyCodeTables, input \in TableInputs}
    /\ lines = <<>>
    /\ numCPU = 1
    /\ find = FindIdle
    /\ p = PagerIdle
    /\ last = LastIdle
    /\ screen = ScreenStarted
    /\ term = TermStarted
    /\ ml = MainLoopStarted
    /\ consumer = ConsumerStarted
    /\ rendered = RenderedIdle

\* The loop returns at an entry, or ends and leaves the input to the mouse
\* and rune decoding
ConsumeFromTable ==
    /\ call.fn = "consumeEncodedEvent"
    /\ call.pc = "called"
    /\ IF keyCodePrefixes(call.table, call.input) = {}
         THEN call' = [call EXCEPT !.pc = "returned"]
         ELSE \E singleKeyCodeSequence \in keyCodePrefixes(call.table, call.input) :
                call' = [call EXCEPT
                           !.pc = "returned",
                           !.matched = TRUE,
                           !.consumed = singleKeyCodeSequence,
                           !.rest = TrimPrefix(call.input, singleKeyCodeSequence)]
    /\ UNCHANGED <<lines, numCPU, find, p, last, screen, term, ml, consumer, rendered>>

TableNext == ConsumeFromTable

SpecTable == TableInit /\ [][TableNext]_vars

\* C39: when consumeEncodedEvent returns a key code, the sequence it took
\* off the input is the longest entry of the table that the input starts
\* with.
C39_LongestEntryConsumed ==
    (call.pc = "returned" /\ call.matched)
        => \A other \in call.table :
             HasPrefix(call.input, other) => Len(other) <= Len(call.consumed)

(***************************************************************************)
(* SpecRender: renderLines applied to every pager and line of the bounds   *)
(***************************************************************************)
SeqsUpTo(S, n) == UNION {[1..k -> S] : k \in 0..n}

RenderLinesSet == {Line(r, t) : r \in SeqsUpTo(Runes, MaxRunes), t \in BOOLEAN}

\* The pagers a render can see.  Scrolling right hides the line numbers,
\* so the gutter is only there at column 0.
RenderPagers(file) ==
    {q \in [scrollPosition : {[lineIndex |-> 0, deltaScreenLines |-> 0]},
            leftColumnZeroBased : 0..MaxLeft,
            showLineNumbers : BOOLEAN, ShowLineNumbers : {TRUE},
            WrapLongLines : BOOLEAN, mode : {"Viewing"}, searching : {TRUE},
            longestLineLength : {0}, width : 1..MaxWidth, height : 2..MaxHeight,
            prefixLength : 2..MaxPrefix, status : {"ok"}] :
        /\ q.leftColumnZeroBased > 0 => ~q.showLineNumbers
        /\ q.WrapLongLines => q.leftColumnZeroBased = 0}

RenderInit ==
    /\ lines \in {<<l>> : l \in RenderLinesSet}
    /\ p \in RenderPagers(lines)
    /\ rendered = RenderedIdle
    /\ call = CallIdle
    /\ numCPU = 1
    /\ find = FindIdle
    /\ last = LastIdle
    /\ screen = ScreenIdle
    /\ term = TermIdle
    /\ ml = MainLoopIdle
    /\ consumer = ConsumerIdle

Render ==
    /\ ~rendered.done
    /\ LET r == renderLines(p, lines)
       IN /\ rendered' = [done |-> TRUE, panic |-> r.panic, cause |-> r.cause,
                          before |-> p, lines |-> r.lines,
                          numberPrefixWidth |-> r.numberPrefixWidth,
                          inputLines |-> r.inputLines, again |-> FALSE, second |-> <<>>]
          /\ p' = AfterRender(p, r)
    /\ UNCHANGED <<call, lines, numCPU, find, last, screen, term, ml, consumer>>

\* A second renderLines() call right after the first returned;
\* rendered.second is what it returns
RenderAgain ==
    /\ rendered.done
    /\ ~rendered.panic
    /\ ~rendered.again
    /\ LET r == renderLines(p, lines)
       IN /\ rendered' = [rendered EXCEPT
                            !.again = TRUE,
                            !.second = <<[panic |-> r.panic, lines |-> r.lines,
                                          numberPrefixWidth |-> r.numberPrefixWidth,
                                          inputLines |-> r.inputLines]>>]
          /\ p' = AfterRender(p, r)
    /\ UNCHANGED <<call, lines, numCPU, find, last, screen, term, ml, consumer>>

RenderNext == Render

SpecRender == RenderInit /\ [][RenderNext]_vars

\* C31: decorateLine never fails with a slice or an index out of range,
\* whatever the screen width, the left column, the gutter and the line's
\* narrow and wide runes.  The scroll position is the first row of the one
\* line, so a render that fails here failed in decorateLine.
C31_DecorateLineNeverFails ==
    rendered.done => ~rendered.panic

(***************************************************************************)
(* SpecViewport: one renderLines() call on files of one or two lines, at   *)
(* every scroll position of the file, every screen size and wrap mode.     *)
(***************************************************************************)
LongLine == Line(<<"a", "a", "a">>, TRUE)

ViewportFiles == UNION {[1..n -> {PlainLine, FarHitLine, LongLine}] : n \in 1..ViewportMaxLines}

ViewportPagers(file) ==
    {q \in [scrollPosition : [lineIndex : 0..(Len(file) - 1),
                              deltaScreenLines : 0..(MaxRunes + 1)],
            leftColumnZeroBased : 0..MaxLeft,
            showLineNumbers : BOOLEAN, ShowLineNumbers : {TRUE},
            WrapLongLines : BOOLEAN, mode : {"Viewing"}, searching : {TRUE},
            longestLineLength : {0}, width : 1..MaxWidth, height : 1..MaxHeight,
            prefixLength : {MaxPrefix}, status : {"ok"}] :
        /\ q.leftColumnZeroBased > 0 => ~q.showLineNumbers
        /\ q.WrapLongLines => q.leftColumnZeroBased = 0
        /\ q.scrollPosition = canonicalize(q, file, q.scrollPosition)}

ViewportInit ==
    /\ lines \in ViewportFiles
    /\ p \in ViewportPagers(lines)
    /\ rendered = RenderedIdle
    /\ call = CallIdle
    /\ numCPU = 1
    /\ find = FindIdle
    /\ last = LastIdle
    /\ screen = ScreenIdle
    /\ term = TermIdle
    /\ ml = MainLoopIdle
    /\ consumer = ConsumerIdle

ViewportNext == Render

SpecViewport == ViewportInit /\ [][ViewportNext]_vars

\* C33: a renderLines() call that returns leaves every field of the pager
\* as it was before the call: scroll position, horizontal offset, line
\* number flag, mode, search pattern and the cached longest line length.
C33_RenderLeavesPager ==
    (rendered.done /\ ~rendered.panic) => p = rendered.before

(***************************************************************************)
(* SpecTop: one renderLines() call at every stored scroll position, the    *)
(* sub-line deltas beyond the rows of the top line included.               *)
(***************************************************************************)
TopPagers(file) ==
    {q \in [scrollPosition : [lineIndex : 0..(Len(file) - 1),
                              deltaScreenLines : 0..(MaxRunes + 1)],
            leftColumnZeroBased : 0..MaxLeft,
            showLineNumbers : BOOLEAN, ShowLineNumbers : {TRUE},
            WrapLongLines : BOOLEAN, mode : {"Viewing"}, searching : {TRUE},
            longestLineLength : {0}, width : 1..MaxWidth, height : 1..MaxHeight,
            prefixLength : {MaxPrefix}, status : {"ok"}] :
        /\ q.leftColumnZeroBased > 0 => ~q.showLineNumbers
        /\ q.WrapLongLines => q.leftColumnZeroBased = 0}

TopInit ==
    /\ lines \in ViewportFiles
    /\ p \in TopPagers(lines)
    /\ rendered = RenderedIdle
    /\ call = CallIdle
    /\ numCPU = 1
    /\ find = FindIdle
    /\ last = LastIdle
    /\ screen = ScreenIdle
    /\ term = TermIdle
    /\ ml = MainLoopIdle
    /\ consumer = ConsumerIdle

SpecTop == TopInit /\ [][ViewportNext]_vars

\* The top line has a row for the stored sub-line delta
TopRowExists ==
    p.scrollPosition.deltaScreenLines < RowCount(p, lines, p.scrollPosition.lineIndex)

FirstRowIsTop ==
    /\ rendered.lines # <<>>
    /\ rendered.lines[1].inputLineIndex = p.scrollPosition.lineIndex
    /\ rendered.lines[1].wrapIndex = p.scrollPosition.deltaScreenLines

\* C32 as stated: the first returned row is the row of the scroll position,
\* and the call aborts exactly when the rows it produced hold no such row.
C32_FirstRowOrAbort ==
    rendered.done =>
        IF TopRowExists THEN ~rendered.panic /\ FirstRowIsTop
        ELSE rendered.panic

\* C32: when the screen has room for at least one content row, renderLines
\* aborts for the scroll position exactly when the top line has no row for
\* the sub-line delta, unless a row failed in decorateLine before that; when
\* it returns, its first row is the row of the scroll position.  With no
\* room for content rows it fetches no line, returns no row and never
\* aborts.
C32_FirstRowOrAbortWhenFetched ==
    rendered.done =>
        /\ rendered.cause = "not found" => (visibleHeight(p) >= 1 /\ ~TopRowExists)
        /\ (visibleHeight(p) >= 1 /\ ~TopRowExists) => rendered.panic
        /\ (visibleHeight(p) >= 1 /\ ~rendered.panic) => FirstRowIsTop
        /\ (visibleHeight(p) >= 1 /\ TopRowExists /\ rendered.panic)
              => rendered.cause = "decorate"
        /\ visibleHeight(p) < 1 => (~rendered.panic /\ rendered.lines = <<>>)

\* C32 witness: wrapping on, the top line wraps into several rows and the
\* stored delta is beyond them; the call aborted
C32_DeltaBeyondRows ==
    /\ rendered.done
    /\ rendered.cause = "not found"
    /\ p.WrapLongLines
    /\ RowCount(p, lines, p.scrollPosition.lineIndex) >= 2
    /\ p.scrollPosition.deltaScreenLines >= RowCount(p, lines, p.scrollPosition.lineIndex)

(***************************************************************************)
(* SpecRedraw: renderLines() called twice in a row on the pagers and files *)
(* of SpecViewport.                                                        *)
(***************************************************************************)
RedrawNext == Render \/ RenderAgain

SpecRedraw == ViewportInit /\ [][RedrawNext]_vars

\* C24: a second renderLines() call, with nothing changed by the caller
\* since the first, returns the same rows, cells, input lines and gutter
\* width as the first.
C24_SecondRenderIsSame ==
    (rendered.done /\ rendered.again) =>
        rendered.second = <<[panic |-> FALSE, lines |-> rendered.lines,
                             numberPrefixWidth |-> rendered.numberPrefixWidth,
                             inputLines |-> rendered.inputLines]>>

\* Two renders of two rows with a gutter; the first one changed
\* p.longestLineLength
C24_RenderedTwice ==
    /\ rendered.done
    /\ rendered.again
    /\ Len(rendered.lines) >= 2
    /\ rendered.numberPrefixWidth > 0
    /\ p.showLineNumbers
    /\ p.longestLineLength > 0

\* C11: renderLines returns at most visibleHeight rows
C11_AtMostVisibleHeightRows ==
    (rendered.done /\ ~rendered.panic) => Len(rendered.lines) <= visibleHeight(p)

\* C11 witness: the top row is a later wrap segment of a line whose remaining
\* segments alone are more than the screen holds, and the screen is full
C11_RowsBelowScreenDropped ==
    /\ rendered.done
    /\ ~rendered.panic
    /\ p.WrapLongLines
    /\ p.scrollPosition.deltaScreenLines > 0
    /\ RowCount(p, lines, p.scrollPosition.lineIndex) - p.scrollPosition.deltaScreenLines
         > visibleHeight(p)
    /\ Len(rendered.lines) = visibleHeight(p)
    /\ visibleHeight(p) > 0

\* C10: every row renderLines returns is at most the screen width wide
C10_RowsFitScreenWidth ==
    (rendered.done /\ ~rendered.panic) =>
        \A r \in 1..Len(rendered.lines) : DisplayWidth(rendered.lines[r].cells) <= p.width

====
